---------------------------- MODULE Spec2Model ----------------------------
(***************************************************************************)
(* Model of the gesture controller: the single-frame classifier            *)
(* (GestureRecognizer.recognize_gesture), the temporal stabilizers         *)
(* (GestureRecognizer.stabilize_gesture, GestureStabilizer.update), the    *)
(* swipe detectors (GestureRecognizer.detect_swipe, SwipeDetector.update), *)
(* the OS action layer (OSController) and the frame loop of                *)
(* GestureController (process_frame, _execute_gesture_action,              *)
(* _toggle_pause, run, cleanup).  Calls on the sink may raise, and         *)
(* MouseController.scroll of the second implementation is modelled too.    *)
(* Config.load_from_dict, the circular-motion and the two-hands detector   *)
(* and the two extractors of the finger states have sections of their own. *)
(*                                                                         *)
(* Time is wall-clock time in ticks of 0.1 s: time.time() is read as the   *)
(* variable now, which only the environment advances (Tick).  Normalized   *)
(* landmark coordinates are integers in units of 0.001.                    *)
(***************************************************************************)
EXTENDS Integers, Sequences, FiniteSets, TLC

VARIABLES
    now,                    \* time.time(), in ticks of 0.1 s
    config,                 \* the Config settings in force
    running,                \* the frame loop of GestureController.run has not terminated
    is_paused,              \* GestureController.is_paused
    last_pause_time,        \* GestureController.last_pause_time
    drag_start_time,        \* GestureController.drag_start_time (0: not started)
    last_scroll_y,          \* GestureController.last_scroll_y (<< >>: None, <<y>>)
    gesture_buffer,         \* GestureRecognizer.gesture_buffer (deque, oldest first)
    current_gesture,        \* GestureRecognizer.current_gesture
    position_history,       \* GestureRecognizer.position_history (deque, oldest first)
    two_hands_buffer,       \* GestureRecognizer.two_hands_buffer (deque, oldest first)
    current_x,              \* OSController.current_x, a fraction <<numerator, denominator>>
    current_y,              \* OSController.current_y, a fraction <<numerator, denominator>>
    position,               \* mouse.position as the program has set it, << >> before it has
    px,                     \* MouseController.px
    py,                     \* MouseController.py
    is_dragging,            \* OSController.is_dragging
    last_left_click_time,   \* OSController.last_left_click_time
    last_right_click_time,  \* OSController.last_right_click_time
    last_double_click_time, \* OSController.last_double_click_time
    buf,                    \* GestureStabilizer.buf (deque, oldest first)
    last_stable,            \* GestureStabilizer.last_stable
    x,                      \* SwipeDetector.x (deque, oldest first)
    last_swipe_time,        \* SwipeDetector.last_swipe_time
    sent,                   \* the commands the last operation sent to the action sink, in order
    ret,                    \* what the calls of the last operation returned
    hist                    \* history of the run, read by the properties only

vars == <<now, config, running, is_paused, last_pause_time, drag_start_time,
          last_scroll_y, gesture_buffer, current_gesture, position_history,
          two_hands_buffer, current_x, current_y, position, px, py, is_dragging,
          last_left_click_time, last_right_click_time, last_double_click_time,
          buf, last_stable, x, last_swipe_time, sent, ret, hist>>

-----------------------------------------------------------------------------
(* Bounds of the model *)

\* time.time() at construction, in ticks: later than every cooldown after the epoch 0
StartTime == 11

\* How many ticks the clock advances in a run of the drag loop, of the pause
\* loop and of the OSController calls
DragHorizon == 8

PauseHorizon == 12

CallHorizon == 12

\* ... of the frame loop with a sweeping hand, and of the SwipeDetector calls
SweepHorizon == 2

SwipeHorizon == 6

\* Python's None
None == "None"

-----------------------------------------------------------------------------
(* Config: class attributes of gesture_controller/config.py, times in ticks *)

DefaultConfig ==
    [ GESTURE_BUFFER_SIZE          |-> 5,
      GESTURE_CONFIDENCE_THRESHOLD |-> 3,
      LEFT_CLICK_COOLDOWN          |-> 5,
      RIGHT_CLICK_COOLDOWN         |-> 5,
      DOUBLE_CLICK_THRESHOLD       |-> 3,
      SCROLL_MULTIPLIER            |-> 30,
      SCROLL_DEADZONE              |-> 15,
      SCROLL_MAX_AMOUNT            |-> 50,
      DRAG_HOLD_TIME               |-> 3,
      SWIPE_THRESHOLD              |-> 150,
      SWIPE_BUFFER_SIZE            |-> 10,
      PAUSE_COOLDOWN               |-> 10,
      PINCH_THRESHOLD              |-> 50,
      PALM_THRESHOLD               |-> 3,
      CURSOR_SMOOTHING             |-> <<3, 5>>,   \* 0.6 as a fraction
      MOUSE_SPEED_MULTIPLIER       |-> 10,         \* 1.0 in tenths
      TWO_HANDS_MIN_FINGERS        |-> 3,
      TWO_HANDS_CONFIDENCE_FRAMES  |-> 3,
      load_from_dict               |-> "classmethod",
      load_from_file               |-> "classmethod",
      to_dict                      |-> "classmethod" ]

\* Config.load_from_dict: hasattr(cls, key) holds for every attribute of the
\* class, setattr replaces it
load_from_dict(cfg, config_dict) ==
    [key \in DOMAIN cfg |->
        IF key \in DOMAIN config_dict THEN config_dict[key] ELSE cfg[key]]

\* The keys Config.to_dict exports: the attributes in upper case
Exported(cfg) ==
    {key \in DOMAIN cfg : key \notin {"load_from_dict", "load_from_file", "to_dict"}}

\* Config.to_dict, if the attribute to_dict is still the method
to_dict(cfg) == [key \in Exported(cfg) |-> cfg[key]]

\* config/settings.py, read by GestureStabilizer and SwipeDetector
settings ==
    [ GESTURE_BUFFER_SIZE |-> 5, GESTURE_THRESHOLD |-> 3,
      CURSOR_SMOOTHING |-> <<3, 5>>,
      SWIPE_BUFFER_SIZE |-> 10, SWIPE_THRESHOLD |-> 180,
      SCROLL_MULTIPLIER |-> 180, SCROLL_DEADZONE |-> 15,
      SCROLL_MAX_AMOUNT |-> 80 ]

-----------------------------------------------------------------------------
(* Helpers *)

\* A deque(maxlen=n) that silently drops the appended element when full
DequeAppend_keeps_oldest(q, e, n) ==
    IF Len(q) < n THEN Append(q, e) ELSE q

\* deque(maxlen=n).append(e)
DequeAppend(q, e, n) ==
    IF Len(q) < n THEN Append(q, e) ELSE Append(Tail(q), e)

\* list.count / deque.count
Count(q, e) == Cardinality({i \in 1..Len(q) : q[i] = e})

\* int(a / b) for b > 0: truncation toward zero
TruncDiv(a, b) == IF a >= 0 THEN a \div b ELSE -((-a) \div b)

Abs(a) == IF a >= 0 THEN a ELSE -a

Min(a, b) == IF a <= b THEN a ELSE b

Max(a, b) == IF a >= b THEN a ELSE b

\* At the start of an operation no method has been called and returned
NotCalled == "not called"

NoReturn ==
    [ stabilize_gesture |-> NotCalled, update |-> NotCalled,
      detect_swipe |-> NotCalled, swipe_update |-> NotCalled,
      recognize_gesture |-> NotCalled,
      recognize_two_handed_gesture |-> NotCalled,
      detect_circular_motion |-> NotCalled,
      HandDetector_get_finger_states |-> NotCalled,
      finger_state_get_finger_states |-> NotCalled ]

\* The program state as one record, so that a method is an operator from
\* state to state and a method body is a composition of such operators.
State ==
    [ now |-> now, config |-> config, running |-> running,
      is_paused |-> is_paused, last_pause_time |-> last_pause_time,
      drag_start_time |-> drag_start_time, last_scroll_y |-> last_scroll_y,
      gesture_buffer |-> gesture_buffer, current_gesture |-> current_gesture,
      position_history |-> position_history,
      two_hands_buffer |-> two_hands_buffer, is_dragging |-> is_dragging,
      current_x |-> current_x, current_y |-> current_y, position |-> position,
      px |-> px, py |-> py,
      last_left_click_time |-> last_left_click_time,
      last_right_click_time |-> last_right_click_time,
      last_double_click_time |-> last_double_click_time,
      buf |-> buf, last_stable |-> last_stable,
      x |-> x, last_swipe_time |-> last_swipe_time,
      sent |-> << >>, ret |-> NoReturn,
      fails |-> {},     \* the sink commands that raise in this operation
      failed |-> {},    \* the sink commands that have raised in it
      exc |-> None,     \* the exception that is propagating
      printed |-> None ] \* the exception the except clause of run has printed

\* A call on the action sink (pynput / pyautogui): when it succeeds the
\* command and its integer argument (0 when it has none) are recorded, when
\* it fails it raises.
SendArg(s, cmd, arg) ==
    IF cmd \in s.fails
    THEN [s EXCEPT !.exc = "Exception", !.failed = @ \cup {cmd}]
    ELSE [s EXCEPT !.sent = Append(@, [cmd |-> cmd, arg |-> arg])]

\* try: the statements up to the state t have not raised
Succeeded(t) == t.exc = None

\* except Exception: the exception is printed in debug mode and dropped
Caught(t) == [t EXCEPT !.exc = None]

Send(s, cmd) == SendArg(s, cmd, 0)

-----------------------------------------------------------------------------
(* OSController (gesture_controller/os_controller.py) *)

\* The screen, as pyautogui.size() gives it
screen_width == 101

screen_height == 50

\* int() of the fraction q
IntOf(q) == TruncDiv(q[1], q[2])

\* The target of move_cursor on one axis before it is clamped: at is the
\* normalized coordinate in units of 0.001, already mirrored for x
Target(cfg, at, size) ==
    TruncDiv(TruncDiv(at * size, 1000) * cfg.MOUSE_SPEED_MULTIPLIER, 10)

\* max(0, min(target, size - 1))
Clamp(target, size) == Max(0, Min(target, size - 1))

target_x(cfg, normalized_x) ==
    Clamp(Target(cfg, 1000 - normalized_x, screen_width), screen_width)

target_y(cfg, normalized_y) ==
    Clamp(Target(cfg, normalized_y, screen_height), screen_height)

\* The smoothing with twice the factor
Smoothed_twice(cfg, current, target) ==
    LET p == 2 * cfg.CURSOR_SMOOTHING[1]
        q == cfg.CURSOR_SMOOTHING[2]
    IN  <<current[1] * q + (target * current[2] - current[1]) * p, current[2] * q>>

\* current += (target - current) * CURSOR_SMOOTHING, on fractions
Smoothed(cfg, current, target) ==
    LET p == cfg.CURSOR_SMOOTHING[1]
        q == cfg.CURSOR_SMOOTHING[2]
    IN  <<current[1] * q + (target * current[2] - current[1]) * p, current[2] * q>>

\* move_cursor whose targets are not clamped
move_cursor_unclamped(s, normalized_x, normalized_y) ==
    LET cx == Smoothed(s.config, s.current_x,
                       Target(s.config, 1000 - normalized_x, screen_width))
        cy == Smoothed(s.config, s.current_y,
                       Target(s.config, normalized_y, screen_height))
        t  == Send([s EXCEPT !.current_x = cx, !.current_y = cy], "move")
    IN  IF Succeeded(t)
        THEN [t EXCEPT !.position = <<IntOf(cx), IntOf(cy)>>]
        ELSE Caught(t)

\* move_cursor(normalized_x, normalized_y) with smooth left at True, as all
\* its callers leave it
\* is recorded as one command to the sink.
move_cursor(s, normalized_x, normalized_y) ==
    LET cx == Smoothed(s.config, s.current_x, target_x(s.config, normalized_x))
        cy == Smoothed(s.config, s.current_y, target_y(s.config, normalized_y))
        t  == Send([s EXCEPT !.current_x = cx, !.current_y = cy], "move")
    IN  IF Succeeded(t)
        THEN [t EXCEPT !.position = <<IntOf(cx), IntOf(cy)>>]
        ELSE Caught(t)

\* left_click without its cooldown test
left_click_without_cooldown(s) ==
    [Send(s, "left_click") EXCEPT !.last_left_click_time = s.now]

left_click(s) ==
    IF s.now - s.last_left_click_time < s.config.LEFT_CLICK_COOLDOWN
    THEN s
    ELSE LET t == Send(s, "left_click")
         IN  IF Succeeded(t)
             THEN [t EXCEPT !.last_left_click_time = s.now]
             ELSE Caught(t)

right_click(s) ==
    IF s.now - s.last_right_click_time < s.config.RIGHT_CLICK_COOLDOWN
    THEN s
    ELSE LET t == Send(s, "right_click")
         IN  IF Succeeded(t)
             THEN [t EXCEPT !.last_right_click_time = s.now]
             ELSE Caught(t)

double_click(s) ==
    IF s.now - s.last_double_click_time < s.config.DOUBLE_CLICK_THRESHOLD * 2
    THEN s
    ELSE LET t == Send(s, "double_click")
         IN  IF Succeeded(t)
             THEN [t EXCEPT !.last_double_click_time = s.now]
             ELSE Caught(t)

\* start_drag without its test of is_dragging
start_drag_unguarded(s) == [Send(s, "press") EXCEPT !.is_dragging = TRUE]

start_drag(s) ==
    IF ~s.is_dragging
    THEN LET t == Send(s, "press")
         IN  IF Succeeded(t)
             THEN [t EXCEPT !.is_dragging = TRUE]
             ELSE Caught(t)
    ELSE s

stop_drag(s) ==
    IF s.is_dragging
    THEN LET t == Send(s, "release")
         IN  IF Succeeded(t)
             THEN [t EXCEPT !.is_dragging = FALSE]
             ELSE Caught(t)
    ELSE s

\* scroll without its clamp
scroll_unclamped(s, amount) ==
    Caught(SendArg(s, "scroll", (-(amount * s.config.SCROLL_MULTIPLIER)) \div 10))

\* scroll(amount): multiplier, clamp, then mouse.scroll(0, -scroll_amount // 10)
scroll(s, amount) ==
    LET scaled  == amount * s.config.SCROLL_MULTIPLIER
        clamped == Max(-s.config.SCROLL_MAX_AMOUNT,
                       Min(scaled, s.config.SCROLL_MAX_AMOUNT))
    IN  Caught(SendArg(s, "scroll", (-clamped) \div 10))

\* MouseController.move (src/actions/mouse_controller.py) on a hand whose
\* index fingertip is tip: the smoothed position is truncated and kept
mouse_move(s, tip) ==
    LET tx == TruncDiv((1000 - tip[1]) * screen_width, 1000)
        ty == TruncDiv(tip[2] * screen_height, 1000)
        mx == IntOf(Smoothed(settings, <<s.px, 1>>, tx))
        my == IntOf(Smoothed(settings, <<s.py, 1>>, ty))
        t  == Send(s, "move")
    IN  IF Succeeded(t)
        THEN [t EXCEPT !.position = <<mx, my>>, !.px = mx, !.py = my]
        ELSE Caught(t)

\* MouseController.scroll (src/actions/mouse_controller.py) on a hand whose
\* index tip is dy below its index middle joint, in units of 0.001: the
\* amount is kept in units of 0.001 until int() truncates it
mouse_scroll(s, dy) ==
    IF Abs(dy) < settings.SCROLL_DEADZONE
    THEN s
    ELSE LET amount  == dy * settings.SCROLL_MULTIPLIER
             clamped == Max(Min(amount, settings.SCROLL_MAX_AMOUNT * 1000),
                            -settings.SCROLL_MAX_AMOUNT * 1000)
         IN  Caught(SendArg(s, "scroll", -TruncDiv(clamped, 1000)))

\* press_hotkey via navigate_back / navigate_forward, in its try block
navigate_back(s) == Caught(Send(s, "hotkey_alt_left"))

navigate_forward(s) == Caught(Send(s, "hotkey_alt_right"))

\* pyautogui.press via volume_up / volume_down, in no try block
volume_up(s) == Send(s, "volumeup")

volume_down(s) == Send(s, "volumedown")

release_all(s) == stop_drag(s)

-----------------------------------------------------------------------------
(* ControlMapper (gesture_controller/control_mapper.py) *)

map_gesture_to_action(gesture) ==
    CASE gesture = "POINT"         -> "move_cursor"
      [] gesture = "LEFT_CLICK"    -> "left_click"
      [] gesture = "RIGHT_CLICK"   -> "right_click"
      [] gesture = "DRAG"          -> "drag"
      [] gesture = "SCROLL"        -> "scroll"
      [] gesture = "THREE_FINGERS" -> "scroll"
      [] gesture = "VICTORY"       -> "double_click"
      [] gesture = "THUMBS_UP"     -> "pause"
      [] gesture = "FIST"          -> "drag"
      [] OTHER                     -> None

map_swipe_to_action(swipe) ==
    CASE swipe = "LEFT"  -> "navigate_back"
      [] swipe = "RIGHT" -> "navigate_forward"
      [] swipe = "UP"    -> "volume_up"
      [] swipe = "DOWN"  -> "volume_down"
      [] OTHER           -> None

-----------------------------------------------------------------------------
(* GestureRecognizer (gesture_controller/gesture_recognizer.py) *)

\* The keys a finger_states dictionary must have
Fingers == {"thumb", "index", "middle", "ring", "pinky"}

\* What calculate_distance(hand_landmarks, 4, 8) gives: a distance d in
\* units of 0.001; None, as which the case that hand_detector or
\* hand_landmarks is missing is taken too; or an AttributeError, IndexError
\* or TypeError
Distance(d) == <<"distance", d>>

NoDistance == <<"None", 0>>

Raises == <<"raises", 0>>

\* The fingers that finger_states has extended
Extended(finger_states) == {f \in DOMAIN finger_states : finger_states[f]}

\* Rules of recognize_gesture after the pinch
recognize_without_pinch(cfg, finger_states) ==
    LET extended_count == Cardinality(Extended(finger_states))
    IN  IF /\ extended_count >= cfg.PALM_THRESHOLD
           /\ finger_states["index"] /\ finger_states["middle"] /\ finger_states["ring"]
        THEN "RIGHT_CLICK"
        ELSE IF extended_count = 0
        THEN "FIST"
        ELSE IF /\ finger_states["index"] /\ finger_states["middle"]
                /\ ~finger_states["ring"] /\ ~finger_states["pinky"]
        THEN "VICTORY"
        ELSE IF /\ finger_states["index"] /\ finger_states["middle"]
                /\ finger_states["ring"] /\ ~finger_states["pinky"]
        THEN "THREE_FINGERS"
        ELSE IF /\ finger_states["index"] /\ ~finger_states["middle"]
                /\ ~finger_states["ring"] /\ ~finger_states["pinky"]
        THEN "POINT"
        ELSE IF finger_states["thumb"] /\ ~finger_states["index"] /\ ~finger_states["middle"]
        THEN "THUMBS_UP"
        ELSE "IDLE"

\* A finger_states argument: a dictionary from keys to booleans, None, or a
\* list
Dict(items) == [type |-> "dict", items |-> items]

NoneType == [type |-> "NoneType", items |-> << >>]

List(items) == [type |-> "list", items |-> items]

\* The label recognize_gesture returns: thumb_index_dist is what
\* calculate_distance gives, valid what _validate_finger_states gives
recognized(cfg, finger_states, thumb_index_dist, valid) ==
    LET items == finger_states.items
        extended_count == Cardinality(Extended(items))
    IN  IF finger_states.type = "NoneType" \/ DOMAIN items = {}
        THEN "IDLE"
        ELSE IF ~valid
        THEN "IDLE"
        ELSE IF thumb_index_dist = Raises
        THEN "IDLE"
        ELSE IF /\ thumb_index_dist # NoDistance
                /\ thumb_index_dist[2] # 0
                /\ thumb_index_dist[2] < cfg.PINCH_THRESHOLD
        THEN IF items["thumb"] /\ items["index"] /\ extended_count = 2
             THEN "LEFT_CLICK"
             ELSE IF items["index"] /\ items["middle"] /\ extended_count = 2
             THEN "DRAG"
             ELSE IF items["thumb"] /\ items["index"]
             THEN "SCROLL"
             ELSE recognize_without_pinch(cfg, items)
        ELSE recognize_without_pinch(cfg, items)

\* _validate_finger_states
validate_finger_states(finger_states) ==
    finger_states.type = "dict" /\ Fingers \subseteq DOMAIN finger_states.items

\* recognize_gesture pushing its label on the gesture buffer
recognize_gesture_buffering(s, finger_states, thumb_index_dist) ==
    LET label == recognized(s.config, finger_states, thumb_index_dist,
                            validate_finger_states(finger_states))
    IN  [s EXCEPT !.ret.recognize_gesture = label,
                  !.gesture_buffer = DequeAppend(@, label, s.config.GESTURE_BUFFER_SIZE)]

recognize_gesture(s, finger_states, thumb_index_dist) ==
    [s EXCEPT !.ret.recognize_gesture =
        recognized(s.config, finger_states, thumb_index_dist,
                   validate_finger_states(finger_states))]

\* The keys of gesture_counts in insertion order: the labels of the buffer
\* in the order of their first occurrence.
RECURSIVE FirstOccurrences(_)
FirstOccurrences(q) ==
    IF q = << >> THEN << >>
    ELSE LET front == FirstOccurrences(SubSeq(q, 1, Len(q) - 1))
             g     == q[Len(q)]
         IN  IF Count(front, g) > 0 THEN front ELSE Append(front, g)

\* The last key, in insertion order, whose count no other key exceeds
RECURSIVE MaxKey_last(_, _)
MaxKey_last(keys, q) ==
    IF Len(keys) = 1 THEN keys[1]
    ELSE LET rest == MaxKey_last(Tail(keys), q)
         IN  IF Count(q, keys[1]) > Count(q, rest) THEN keys[1] ELSE rest

\* max(gesture_counts, key=gesture_counts.get): the first key, in insertion
\* order, whose count no other key exceeds.
RECURSIVE MaxKey(_, _)
MaxKey(keys, q) ==
    IF Len(keys) = 1 THEN keys[1]
    ELSE LET rest == MaxKey(Tail(keys), q)
         IN  IF Count(q, keys[1]) >= Count(q, rest) THEN keys[1] ELSE rest

\* stabilize_gesture with > for >= in the test of the confidence threshold
stabilize_gesture_above_threshold(s, gesture) ==
    LET b  == DequeAppend(s.gesture_buffer, gesture, s.config.GESTURE_BUFFER_SIZE)
        s1 == [s EXCEPT !.gesture_buffer = b]
    IN  IF Len(b) < s.config.GESTURE_BUFFER_SIZE
        THEN [s1 EXCEPT !.ret.stabilize_gesture = s.current_gesture]
        ELSE LET max_gesture == MaxKey(FirstOccurrences(b), b)
                 max_count   == Count(b, max_gesture)
             IN  IF max_count > s.config.GESTURE_CONFIDENCE_THRESHOLD
                 THEN [s1 EXCEPT !.current_gesture = max_gesture,
                                 !.ret.stabilize_gesture = max_gesture]
                 ELSE [s1 EXCEPT !.ret.stabilize_gesture = s.current_gesture]

\* stabilize_gesture without the test that the buffer is full
stabilize_gesture_before_full(s, gesture) ==
    LET b  == DequeAppend(s.gesture_buffer, gesture, s.config.GESTURE_BUFFER_SIZE)
        s1 == [s EXCEPT !.gesture_buffer = b]
        max_gesture == MaxKey(FirstOccurrences(b), b)
        max_count   == Count(b, max_gesture)
    IN  IF max_count >= s.config.GESTURE_CONFIDENCE_THRESHOLD
        THEN [s1 EXCEPT !.current_gesture = max_gesture,
                        !.ret.stabilize_gesture = max_gesture]
        ELSE [s1 EXCEPT !.ret.stabilize_gesture = s.current_gesture]

\* stabilize_gesture forgetting the stored label when no label reaches the
\* confidence threshold
stabilize_gesture_not_sticky(s, gesture) ==
    LET b  == DequeAppend(s.gesture_buffer, gesture, s.config.GESTURE_BUFFER_SIZE)
        s1 == [s EXCEPT !.gesture_buffer = b]
    IN  IF Len(b) < s.config.GESTURE_BUFFER_SIZE
        THEN [s1 EXCEPT !.ret.stabilize_gesture = s.current_gesture]
        ELSE LET max_gesture == MaxKey(FirstOccurrences(b), b)
                 max_count   == Count(b, max_gesture)
             IN  IF max_count >= s.config.GESTURE_CONFIDENCE_THRESHOLD
                 THEN [s1 EXCEPT !.current_gesture = max_gesture,
                                 !.ret.stabilize_gesture = max_gesture]
                 ELSE [s1 EXCEPT !.current_gesture = None,
                                 !.ret.stabilize_gesture = None]

stabilize_gesture(s, gesture) ==
    LET b  == DequeAppend(s.gesture_buffer, gesture, s.config.GESTURE_BUFFER_SIZE)
        s1 == [s EXCEPT !.gesture_buffer = b]
    IN  IF Len(b) < s.config.GESTURE_BUFFER_SIZE
        THEN [s1 EXCEPT !.ret.stabilize_gesture = s.current_gesture]
        ELSE LET max_gesture == MaxKey(FirstOccurrences(b), b)
                 max_count   == Count(b, max_gesture)
             IN  IF max_count >= s.config.GESTURE_CONFIDENCE_THRESHOLD
                 THEN [s1 EXCEPT !.current_gesture = max_gesture,
                                 !.ret.stabilize_gesture = max_gesture]
                 ELSE [s1 EXCEPT !.ret.stabilize_gesture = s.current_gesture]

\* detect_swipe without the test that the history is full
detect_swipe_before_full(s, tip) ==
    LET h  == DequeAppend(s.position_history, tip, s.config.SWIPE_BUFFER_SIZE)
        s1 == [s EXCEPT !.position_history = h]
        dx == h[Len(h)][1] - h[1][1]
        dy == h[Len(h)][2] - h[1][2]
        th == s.config.SWIPE_THRESHOLD
    IN  IF dx * dx + dy * dy < th * th
        THEN [s1 EXCEPT !.ret.detect_swipe = None]
        ELSE IF Abs(dx) > Abs(dy)
        THEN [s1 EXCEPT !.ret.detect_swipe = IF dx > 0 THEN "RIGHT" ELSE "LEFT"]
        ELSE [s1 EXCEPT !.ret.detect_swipe = IF dy > 0 THEN "DOWN" ELSE "UP"]

\* detect_swipe with <= for < in the test of the distance
detect_swipe_above_threshold(s, tip) ==
    LET h  == DequeAppend(s.position_history, tip, s.config.SWIPE_BUFFER_SIZE)
        s1 == [s EXCEPT !.position_history = h]
        dx == h[Len(h)][1] - h[1][1]
        dy == h[Len(h)][2] - h[1][2]
        th == s.config.SWIPE_THRESHOLD
    IN  IF Len(h) < s.config.SWIPE_BUFFER_SIZE
        THEN [s1 EXCEPT !.ret.detect_swipe = None]
        ELSE IF dx * dx + dy * dy <= th * th
        THEN [s1 EXCEPT !.ret.detect_swipe = None]
        ELSE IF Abs(dx) > Abs(dy)
        THEN [s1 EXCEPT !.ret.detect_swipe = IF dx > 0 THEN "RIGHT" ELSE "LEFT"]
        ELSE [s1 EXCEPT !.ret.detect_swipe = IF dy > 0 THEN "DOWN" ELSE "UP"]

\* detect_swipe with the index fingertip tip = <<x, y>> in units of 0.001;
\* distance < SWIPE_THRESHOLD is compared on the squares
detect_swipe(s, tip) ==
    LET h  == DequeAppend(s.position_history, tip, s.config.SWIPE_BUFFER_SIZE)
        s1 == [s EXCEPT !.position_history = h]
        dx == h[Len(h)][1] - h[1][1]
        dy == h[Len(h)][2] - h[1][2]
        th == s.config.SWIPE_THRESHOLD
    IN  IF Len(h) < s.config.SWIPE_BUFFER_SIZE
        THEN [s1 EXCEPT !.ret.detect_swipe = None]
        ELSE IF dx * dx + dy * dy < th * th
        THEN [s1 EXCEPT !.ret.detect_swipe = None]
        ELSE IF Abs(dx) > Abs(dy)
        THEN [s1 EXCEPT !.ret.detect_swipe = IF dx > 0 THEN "RIGHT" ELSE "LEFT"]
        ELSE [s1 EXCEPT !.ret.detect_swipe = IF dy > 0 THEN "DOWN" ELSE "UP"]

\* np.arctan2(dy, dx) in units of pi / 4, for a displacement along an axis or
\* a diagonal (arctan2(0, 0) is 0)
arctan2(dy, dx) ==
    CASE dx > 0 /\ dy = 0   -> 0
      [] dx > 0 /\ dy = dx  -> 1
      [] dx = 0 /\ dy > 0   -> 2
      [] dx < 0 /\ dy = -dx -> 3
      [] dx < 0 /\ dy = 0   -> 4
      [] dx < 0 /\ dy = dx  -> -3
      [] dx = 0 /\ dy < 0   -> -2
      [] dx > 0 /\ dy = -dx -> -1
      [] dx = 0 /\ dy = 0   -> 0

\* np.pi in units of pi / 4
pi == 4

\* The total rotation: the sum of the differences of consecutive angles, each
\* normalized to [-pi, pi]
RECURSIVE total_rotation(_)
total_rotation(angles) ==
    IF Len(angles) < 2 THEN 0
    ELSE LET n          == Len(angles)
             angle_diff == angles[n] - angles[n - 1]
             normalized == IF angle_diff > pi THEN angle_diff - 2 * pi
                           ELSE IF angle_diff < -pi THEN angle_diff + 2 * pi
                           ELSE angle_diff
         IN  total_rotation(SubSeq(angles, 1, n - 1)) + normalized

\* detect_circular_motion with the index fingertip tip = <<x, y>>, has_hand
\* telling whether hand_landmarks and hand_detector are given
detect_circular_motion(s, tip, has_hand) ==
    IF ~has_hand
    THEN [s EXCEPT !.ret.detect_circular_motion = None]
    ELSE LET h  == DequeAppend(s.position_history, tip, s.config.SWIPE_BUFFER_SIZE)
             s1 == [s EXCEPT !.position_history = h]
             angles == [i \in 1..(Len(h) - 1) |->
                           arctan2(h[i + 1][2] - h[i][2], h[i + 1][1] - h[i][1])]
             total  == total_rotation(angles)
         IN  IF Len(h) < s.config.SWIPE_BUFFER_SIZE
             THEN [s1 EXCEPT !.ret.detect_circular_motion = None]
             ELSE IF Abs(total) > pi
             THEN [s1 EXCEPT !.ret.detect_circular_motion =
                                IF total > 0 THEN "COUNTERCLOCKWISE" ELSE "CLOCKWISE"]
             ELSE [s1 EXCEPT !.ret.detect_circular_motion = None]

\* reset without the clearing of the two-hands buffer
reset_keeps_two_hands(s) ==
    [s EXCEPT !.gesture_buffer = << >>,
              !.position_history = << >>,
              !.current_gesture = None]

reset(s) ==
    [s EXCEPT !.gesture_buffer = << >>,
              !.position_history = << >>,
              !.current_gesture = None,
              !.two_hands_buffer = << >>]

\* _validate_hand_landmarks: a hand is given by the number of its landmarks
\* and the number of its extended fingers
validate_hand_landmarks(hand) == hand.landmarks = 21

\* recognize_two_handed_gesture on the hands of a frame, has_detector telling
\* whether a hand_detector is passed
recognize_two_handed_gesture(s, hands, has_detector) ==
    IF Len(hands) < 2
    THEN [s EXCEPT !.two_hands_buffer = << >>,
                   !.ret.recognize_two_handed_gesture = None]
    ELSE IF ~has_detector
    THEN [s EXCEPT !.ret.recognize_two_handed_gesture = None]
    ELSE IF ~validate_hand_landmarks(hands[1]) \/ ~validate_hand_landmarks(hands[2])
    THEN [s EXCEPT !.two_hands_buffer = << >>,
                   !.ret.recognize_two_handed_gesture = None]
    ELSE LET min_fingers == s.config.TWO_HANDS_MIN_FINGERS
             gesture_detected == /\ hands[1].extended >= min_fingers
                                 /\ hands[2].extended >= min_fingers
             b == DequeAppend(s.two_hands_buffer, gesture_detected,
                              s.config.TWO_HANDS_CONFIDENCE_FRAMES)
         IN  [s EXCEPT !.two_hands_buffer = b,
                       !.ret.recognize_two_handed_gesture =
                           IF /\ Len(b) >= s.config.TWO_HANDS_CONFIDENCE_FRAMES
                              /\ Count(b, TRUE) >= s.config.TWO_HANDS_CONFIDENCE_FRAMES
                           THEN "TWO_HANDS_OPEN" ELSE None]

-----------------------------------------------------------------------------
(* GestureStabilizer (src/gestures/stabilizer.py) *)

\* update returning None, not the last stable gesture, below the threshold
update_without_last_stable(s, gesture) ==
    LET b  == DequeAppend(s.buf, gesture, settings.GESTURE_BUFFER_SIZE)
        s1 == [s EXCEPT !.buf = b]
    IN  IF Count(b, gesture) >= settings.GESTURE_THRESHOLD
        THEN [s1 EXCEPT !.last_stable = gesture, !.ret.update = gesture]
        ELSE [s1 EXCEPT !.ret.update = None]

update(s, gesture) ==
    LET b  == DequeAppend(s.buf, gesture, settings.GESTURE_BUFFER_SIZE)
        s1 == [s EXCEPT !.buf = b]
    IN  IF Count(b, gesture) >= settings.GESTURE_THRESHOLD
        THEN [s1 EXCEPT !.last_stable = gesture, !.ret.update = gesture]
        ELSE [s1 EXCEPT !.ret.update = s.last_stable]

stabilizer_reset(s) == [s EXCEPT !.buf = << >>, !.last_stable = None]

-----------------------------------------------------------------------------
(* SwipeDetector (src/gestures/swipe.py), x in units of 0.001 *)

\* self.cooldown = 0.5, in ticks
cooldown == 5

\* update without the test of the cooldown
swipe_update_without_cooldown(s, tip_x) ==
    LET b  == DequeAppend(s.x, tip_x, settings.SWIPE_BUFFER_SIZE)
        s1 == [s EXCEPT !.x = b]
        dx == b[Len(b)] - b[1]
    IN  IF Len(b) < settings.SWIPE_BUFFER_SIZE
        THEN [s1 EXCEPT !.ret.swipe_update = None]
        ELSE IF dx > settings.SWIPE_THRESHOLD
        THEN [s1 EXCEPT !.last_swipe_time = s.now, !.x = << >>,
                        !.ret.swipe_update = "RIGHT"]
        ELSE IF dx < -settings.SWIPE_THRESHOLD
        THEN [s1 EXCEPT !.last_swipe_time = s.now, !.x = << >>,
                        !.ret.swipe_update = "LEFT"]
        ELSE [s1 EXCEPT !.ret.swipe_update = None]

\* SwipeDetector.update with tip.x = tip_x
swipe_update(s, tip_x) ==
    LET b  == DequeAppend(s.x, tip_x, settings.SWIPE_BUFFER_SIZE)
        s1 == [s EXCEPT !.x = b]
        dx == b[Len(b)] - b[1]
    IN  IF Len(b) < settings.SWIPE_BUFFER_SIZE
        THEN [s1 EXCEPT !.ret.swipe_update = None]
        ELSE IF s.now - s.last_swipe_time < cooldown
        THEN [s1 EXCEPT !.ret.swipe_update = None]
        ELSE IF dx > settings.SWIPE_THRESHOLD
        THEN [s1 EXCEPT !.last_swipe_time = s.now, !.x = << >>,
                        !.ret.swipe_update = "RIGHT"]
        ELSE IF dx < -settings.SWIPE_THRESHOLD
        THEN [s1 EXCEPT !.last_swipe_time = s.now, !.x = << >>,
                        !.ret.swipe_update = "LEFT"]
        ELSE [s1 EXCEPT !.ret.swipe_update = None]

\* SwipeDetector.reset
swipe_reset(s) == [s EXCEPT !.x = << >>]

-----------------------------------------------------------------------------
(* GestureController (gesture_controller/main.py) *)

\* The literal 1.0 of _toggle_pause, in ticks
ToggleCooldownLiteral == 10

execute_swipe_action(s, action) ==
    CASE action = "navigate_back"    -> navigate_back(s)
      [] action = "navigate_forward" -> navigate_forward(s)
      [] action = "volume_up"        -> volume_up(s)
      [] action = "volume_down"      -> volume_down(s)
      [] OTHER                       -> s

\* The "drag" branch of _execute_gesture_action up to the call of
\* get_normalized_landmark
drag_press(s) ==
    IF s.drag_start_time = 0
    THEN [s EXCEPT !.drag_start_time = s.now]
    ELSE IF s.now - s.drag_start_time > s.config.DRAG_HOLD_TIME
    THEN start_drag(s)
    ELSE s

\* The "drag" branch
drag_action(s, tip) ==
    IF s.drag_start_time # 0 /\ s.now - s.drag_start_time > s.config.DRAG_HOLD_TIME
    THEN move_cursor(drag_press(s), tip[1], tip[2])
    ELSE drag_press(s)

\* The "scroll" branch: dy * 100 truncated by int(), y in units of 0.001
scroll_action(s, tip) ==
    LET y         == tip[2]
        dy        == y - s.last_scroll_y[1]
        s1        == IF s.last_scroll_y # << >> /\ Abs(dy) > s.config.SCROLL_DEADZONE
                     THEN scroll(s, TruncDiv(dy, 10))
                     ELSE s
    IN  [s1 EXCEPT !.last_scroll_y = <<y>>]

\* The "move_cursor" branch
move_action(s, tip) ==
    LET s1 == detect_swipe(move_cursor(s, tip[1], tip[2]), tip)
        swipe == s1.ret.detect_swipe
    IN  IF swipe # None
        THEN execute_swipe_action(s1, map_swipe_to_action(swipe))
        ELSE s1

\* The first and the last branch without the reset of drag_start_time
release_without_reset(s) == stop_drag(s)

\* The first and the last branch: no gesture, IDLE, or no handled action
release_and_reset(s) == [stop_drag(s) EXCEPT !.drag_start_time = 0]

execute_gesture_action(s, gesture, tip) ==
    IF gesture = None \/ gesture = "IDLE"
    THEN release_and_reset(s)
    ELSE LET action == map_gesture_to_action(gesture)
         IN  CASE action = "move_cursor"  -> move_action(s, tip)
               [] action = "left_click"   -> stop_drag(left_click(s))
               [] action = "right_click"  -> stop_drag(right_click(s))
               [] action = "double_click" -> stop_drag(double_click(s))
               [] action = "drag"         -> drag_action(s, tip)
               [] action = "scroll"       -> scroll_action(s, tip)
               [] OTHER                   -> release_and_reset(s)

\* _toggle_pause without its cooldown
toggle_pause_always(s) ==
    [s EXCEPT !.is_paused = ~s.is_paused, !.last_pause_time = s.now]

toggle_pause(s) ==
    IF s.now - s.last_pause_time > ToggleCooldownLiteral
    THEN [s EXCEPT !.is_paused = ~s.is_paused, !.last_pause_time = s.now]
    ELSE s

\* Lines 114-119 without the test of is_paused
dispatch_when_paused(s, stable_gesture, tip) ==
    execute_gesture_action(s, stable_gesture, tip)

\* Lines 114-119 of process_frame
dispatch(s, stable_gesture, tip) ==
    IF ~s.is_paused
    THEN execute_gesture_action(s, stable_gesture, tip)
    ELSE stop_drag(s)

\* HandDetector.get_finger_states on a hand of that many landmarks: whether it
\* returns; it reads the landmarks up to number 20 and tests no length
get_finger_states(landmarks) == landmarks > 20

\* process_frame on a frame with a hand of frame.landmarks landmarks, whose
\* classified gesture is frame.gesture and whose index fingertip is frame.tip
process_frame(s, frame) ==
    LET s1 == stabilize_gesture(s, frame.gesture)
        stable_gesture == s1.ret.stabilize_gesture
        s2 == dispatch(s1, stable_gesture, frame.tip)
    IN  IF ~get_finger_states(frame.landmarks)
        THEN [s EXCEPT !.exc = "IndexError"]
        ELSE IF ~Succeeded(s2)
        THEN s2
        ELSE IF stable_gesture = "THUMBS_UP" THEN toggle_pause(s2) ELSE s2

\* The state in which process_frame is left when the call named by point raises
process_frame_raises(s, frame, point) ==
    LET s1 == stabilize_gesture(s, frame.gesture)
        stable_gesture == s1.ret.stabilize_gesture
    IN  CASE point = "detect_hands" -> s
          [] point = "draw_gesture" -> s1
          [] point = "get_normalized_landmark" ->
                IF ~s1.is_paused /\ map_gesture_to_action(stable_gesture) = "drag"
                THEN drag_press(s1) ELSE s1
          [] point = "draw_status" -> process_frame(s, frame)

\* Whether process_frame reaches the call named by point
Reaches(s, frame, point) ==
    LET s1 == stabilize_gesture(s, frame.gesture)
        stable_gesture == s1.ret.stabilize_gesture
        action == map_gesture_to_action(stable_gesture)
    IN  CASE point = "draw_gesture" -> stable_gesture # None
          [] point = "get_normalized_landmark" ->
                /\ ~s1.is_paused
                /\ stable_gesture # "IDLE"
                /\ \/ action \in {"move_cursor", "scroll"}
                   \/ /\ action = "drag"
                      /\ s1.drag_start_time # 0
                      /\ s1.now - s1.drag_start_time > s1.config.DRAG_HOLD_TIME
          [] OTHER -> TRUE

\* cleanup without release_all
cleanup_without_release(s) == [s EXCEPT !.running = FALSE]

\* cleanup, as far as it changes the state: is_running and release_all
cleanup(s) == release_all([s EXCEPT !.running = FALSE])

\* One pass of the loop of run on a frame with a hand: an exception that
\* leaves process_frame is printed by the except clause and the finally
\* clause cleans up
run_iteration(s, frame) ==
    LET s1 == process_frame(s, frame)
    IN  IF Succeeded(s1)
        THEN s1
        ELSE cleanup([s1 EXCEPT !.exc = None, !.printed = s1.exc])

\* A pass of the loop in which camera.read() fails, were the loop to go on
read_fails_skipped(s) == s

\* A pass of the loop in which camera.read() fails: break, then the finally
\* clause cleans up
read_fails(s) == cleanup(s)

-----------------------------------------------------------------------------
(* History of the run.  It records what the properties speak of and the     *)
(* code keeps no trace of: what the last operation was, and when the sink   *)
(* received which command.                                                  *)

DragGestures == {"DRAG", "FIST"}

CountCmd(q, cmd) == Cardinality({i \in 1..Len(q) : q[i].cmd = cmd})

Shift(pair, time, n) == IF n > 0 THEN <<pair[2], time>> ELSE pair

InitHist ==
    [ op            |-> "init",   \* the operation that led to this state ("tick": time passed since)
      called        |-> None,     \* the OSController method called directly, if one was
      frame         |-> "init",   \* the last loop iteration: "hand", "nohand", "raised"
      raw           |-> None,     \* the classified gesture of the last frame with a hand
      stable        |-> None,     \* its stable gesture
      paused        |-> FALSE,    \* is_paused when that frame was dispatched
      was_dragging  |-> FALSE,    \* is_dragging before the operation
      balance       |-> 0,        \* presses minus releases received by the sink
      drag_since    |-> 0,        \* start of the current run of frames whose stable gesture is DRAG/FIST
      hold_presses  |-> 0,        \* presses sent in that run
      hold_toggles  |-> 0,        \* toggles in the current run of frames whose stable gesture is THUMBS_UP
      toggles       |-> <<0, 0>>, \* times of the last two accepted toggles
      left_clicks   |-> <<0, 0>>, \* times of the last two left clicks the sink received from direct calls
      right_click   |-> 0,        \* time of the last such right click
      double_click  |-> 0,        \* time of the last such double click
      pushes        |-> 0,        \* labels fed since construction or reset, up to the larger window size
      prev_current  |-> None,     \* current_gesture before the last stabilizer call
      prev_stable   |-> None,     \* last_stable before the last stabilizer call
      run           |-> 0,        \* length of the run of identical labels fed last, up to the larger window size
      tip           |-> << >>,    \* the index fingertip of the last frame with a hand or detect_swipe call
      prev_history  |-> << >>,    \* position_history before that frame or call
      swipes        |-> <<0, 0>>, \* times of the last two frames in which detect_swipe reported a swipe
      sample        |-> 0,        \* tip.x of the last SwipeDetector.update call
      prev_x        |-> << >>,    \* SwipeDetector.x before that call
      reports       |-> <<0, 0>>, \* times of the last two swipes SwipeDetector.update reported
      fresh         |-> TRUE,     \* no update call since construction, the last report or the last reset
      samples       |-> 0,        \* update calls since then, up to SWIPE_BUFFER_SIZE
      fingers_type  |-> "NoneType", \* the type of finger_states in the last recognize_gesture call
      fingers       |-> << >>,    \* its items
      prev_buffer   |-> << >>,    \* gesture_buffer before that call
      prev_two_hands |-> << >>,   \* two_hands_buffer before that call
      hands         |-> << >>,    \* the hands of the last recognize_two_handed_gesture call
      hand          |-> << >>,    \* the landmarks the finger states were last extracted from
      has_hand      |-> TRUE,     \* the last detect_circular_motion call was given a hand and a detector
      two_hands_calls |-> << >>,  \* the last recognize_two_handed_gesture calls since a reset
      pinch         |-> <<"None", 0>>, \* its distance between thumb tip and index tip
      delta         |-> << >>,    \* the vertical delta of the last scroll, << >> if it had none
      amount        |-> << >>,    \* the amount the last call of scroll was given
      moves         |-> 0,        \* the calls of move_cursor so far
      prev_position |-> << >>,    \* the smoothed position <<x, y>>, as fractions, before the last move
      target        |-> << >>,    \* the target <<x, y>> of the last move
      config_dict   |-> << >>,    \* the dictionary of the last load_from_dict call
      prev_config   |-> << >>,    \* the attributes of Config before that call
      prev_tip      |-> << >>,    \* the index fingertip of the frame before the last, << >> if it had no hand
      prev_gesture  |-> None,     \* the stable gesture of the frame before the last, None if it had no hand
      landmarks     |-> 21,       \* the landmarks of the hand of the last frame
      failed        |-> {},       \* the sink commands that raised in the last frame
      raised        |-> None ]    \* the exception the last frame left process_frame with

\* What every operation records: s is the state before, s2 the state after
Sink(h, s, s2, op) ==
    [h EXCEPT
        !.op           = op,
        !.was_dragging = s.is_dragging,
        !.balance      = @ + CountCmd(s2.sent, "press") - CountCmd(s2.sent, "release"),
        !.toggles      = Shift(@, s.now, IF s2.is_paused # s.is_paused THEN 1 ELSE 0)]

\* What a direct call of an OSController method records besides
Called(h, s, s2, method) ==
    [Sink(h, s, s2, "call") EXCEPT
        !.called       = method,
        !.left_clicks  = Shift(@, s.now, CountCmd(s2.sent, "left_click")),
        !.right_click  = IF CountCmd(s2.sent, "right_click") > 0 THEN s.now ELSE @,
        !.double_click = IF CountCmd(s2.sent, "double_click") > 0 THEN s.now ELSE @]

\* What a call of the stabilizers records
Fed(h, s) ==
    [h EXCEPT
        !.pushes       = Min(@ + 1, Max(s.config.GESTURE_BUFFER_SIZE,
                                        settings.GESTURE_BUFFER_SIZE)),
        !.prev_current = s.current_gesture,
        !.prev_stable  = s.last_stable]

\* What a frame with a hand records, raw being its classified and stable its
\* stable gesture
Framed(h, s, s2, raw, stable) ==
    LET continues(set) == h.frame = "hand" /\ h.stable \in set
        toggled == IF s2.is_paused # s.is_paused THEN 1 ELSE 0
    IN  [Fed(Sink(h, s, s2, "frame"), s) EXCEPT
            !.frame        = "hand",
            !.raw          = raw,
            !.stable       = stable,
            !.paused       = s.is_paused,
            !.prev_history = s.position_history,
            !.swipes       = Shift(@, s.now,
                                   IF s2.ret.detect_swipe \in {None, NotCalled}
                                   THEN 0 ELSE 1),
            !.drag_since   = IF stable \in DragGestures
                             THEN (IF continues(DragGestures) THEN @ ELSE s.now)
                             ELSE 0,
            !.hold_presses = IF stable \in DragGestures
                             THEN (IF continues(DragGestures) THEN @ ELSE 0)
                                  + CountCmd(s2.sent, "press")
                             ELSE 0,
            !.hold_toggles = IF stable = "THUMBS_UP"
                             THEN (IF continues({"THUMBS_UP"}) THEN @ ELSE 0) + toggled
                             ELSE 0]

\* The variables take the values of the state record s2
Becomes(s2) ==
    /\ now' = s2.now
    /\ config' = s2.config
    /\ running' = s2.running
    /\ is_paused' = s2.is_paused
    /\ last_pause_time' = s2.last_pause_time
    /\ drag_start_time' = s2.drag_start_time
    /\ last_scroll_y' = s2.last_scroll_y
    /\ gesture_buffer' = s2.gesture_buffer
    /\ current_gesture' = s2.current_gesture
    /\ position_history' = s2.position_history
    /\ two_hands_buffer' = s2.two_hands_buffer
    /\ current_x' = s2.current_x
    /\ current_y' = s2.current_y
    /\ position' = s2.position
    /\ px' = s2.px
    /\ py' = s2.py
    /\ is_dragging' = s2.is_dragging
    /\ last_left_click_time' = s2.last_left_click_time
    /\ last_right_click_time' = s2.last_right_click_time
    /\ last_double_click_time' = s2.last_double_click_time
    /\ buf' = s2.buf
    /\ last_stable' = s2.last_stable
    /\ x' = s2.x
    /\ last_swipe_time' = s2.last_swipe_time
    /\ sent' = s2.sent
    /\ ret' = s2.ret

-----------------------------------------------------------------------------
(* Initial states *)

InitWith(cfg) ==
    /\ now = StartTime
    /\ config = cfg
    /\ running = TRUE
    /\ is_paused = FALSE
    /\ last_pause_time = 0
    /\ drag_start_time = 0
    /\ last_scroll_y = << >>
    /\ gesture_buffer = << >>
    /\ current_gesture = None
    /\ position_history = << >>
    /\ two_hands_buffer = << >>
    /\ current_x = <<screen_width \div 2, 1>>
    /\ current_y = <<screen_height \div 2, 1>>
    /\ position = << >>
    /\ px = screen_width \div 2
    /\ py = screen_height \div 2
    /\ is_dragging = FALSE
    /\ last_left_click_time = 0
    /\ last_right_click_time = 0
    /\ last_double_click_time = 0
    /\ buf = << >>
    /\ last_stable = None
    /\ x = << >>
    /\ last_swipe_time = 0
    /\ sent = << >>
    /\ ret = NoReturn
    /\ hist = InitHist

-----------------------------------------------------------------------------
(* The frame loop of GestureController.run *)

\* The loop is run with the gesture window configured to 3 labels of which
\* 2 confirm, a swipe history of 3 positions and a cursor smoothing of 1
\* (Config.load_from_dict).
LoopConfig ==
    [DefaultConfig EXCEPT !.GESTURE_BUFFER_SIZE = 3,
                          !.GESTURE_CONFIDENCE_THRESHOLD = 2,
                          !.SWIPE_BUFFER_SIZE = 3,
                          !.CURSOR_SMOOTHING = <<1, 1>>]

FrameTips == {<<500, 500>>}

RaisePoints == {"detect_hands", "draw_gesture", "get_normalized_landmark", "draw_status"}

\* time.time() advances by one tick, up to horizon ticks after StartTime
Tick(horizon) ==
    /\ running
    /\ now < StartTime + horizon
    /\ now' = now + 1
    /\ sent' = << >>
    /\ hist' = [hist EXCEPT !.op = "tick", !.was_dragging = is_dragging]
    /\ UNCHANGED <<config, running, is_paused, last_pause_time, drag_start_time,
                   last_scroll_y, gesture_buffer, current_gesture, position_history,
                   two_hands_buffer, current_x, current_y, position, px, py, is_dragging,
                   last_left_click_time, last_right_click_time,
                   last_double_click_time, buf, last_stable, x, last_swipe_time, ret>>

\* One iteration of the loop on a frame with a hand
Frame(gesture, tip) ==
    /\ running
    /\ LET s2 == process_frame(State, [gesture |-> gesture, tip |-> tip,
                                        landmarks |-> 21])
       IN  /\ Becomes(s2)
           /\ hist' = [Framed(hist, State, s2, gesture, s2.ret.stabilize_gesture)
                          EXCEPT !.tip = tip]

\* One iteration of the loop on a frame without a hand: process_frame returns early
NoHandFrame ==
    /\ running
    /\ Becomes(State)
    /\ hist' = [Sink(hist, State, State, "frame") EXCEPT
                   !.frame = "nohand", !.drag_since = 0,
                   !.hold_presses = 0, !.hold_toggles = 0]

\* The loop ends between two frames: ESC, a failed read, KeyboardInterrupt
Terminate ==
    /\ running
    /\ LET s2 == cleanup(State)
       IN  /\ Becomes(s2)
           /\ hist' = Sink(hist, State, s2, "cleanup")

\* The loop ends by an exception raised in process_frame at the call point:
\* sent holds what cleanup sent, was_dragging what it found
FrameRaises(gesture, tip, point) ==
    /\ running
    /\ LET frame == [gesture |-> gesture, tip |-> tip, landmarks |-> 21]
           s1 == process_frame_raises(State, frame, point)
           s2 == cleanup([s1 EXCEPT !.sent = << >>])
       IN  /\ Reaches(State, frame, point)
           /\ Becomes(s2)
           /\ hist' = [Sink(Sink(hist, State, s1, "frame"), s1, s2, "cleanup") EXCEPT
                          !.frame = "raised"]

\* The drag loop: frames that point, drag and idle
DragLoopGestures == {"DRAG", "POINT", "IDLE"}

Init == InitWith(LoopConfig)

Next ==
    \/ Tick(DragHorizon)
    \/ \E g \in DragLoopGestures, tip \in FrameTips : Frame(g, tip)
    \/ NoHandFrame
    \/ Terminate
    \/ \E g \in DragLoopGestures, tip \in FrameTips, point \in RaisePoints :
          FrameRaises(g, tip, point)

Spec == Init /\ [][Next]_vars

-----------------------------------------------------------------------------
(* Properties of the drag loop (Spec) *)

\* The last operation was a loop iteration on a frame with a hand, and no
\* time has passed since
AfterHandFrame == hist.op = "frame" /\ hist.frame = "hand"

\* press and release commands alternate in q, pressed telling whether the
\* button is down before q
RECURSIVE Alternates(_, _)
Alternates(pressed, q) ==
    IF q = << >> THEN TRUE
    ELSE CASE q[1].cmd = "press"   -> ~pressed /\ Alternates(TRUE, Tail(q))
           [] q[1].cmd = "release" -> pressed /\ Alternates(FALSE, Tail(q))
           [] OTHER                -> Alternates(pressed, Tail(q))

\* C1, as claimed: a frame issues a left-button press only if DRAG/FIST has
\* been the stable gesture of every frame for more than DRAG_HOLD_TIME up to
\* that frame; a change to another gesture, or a frame without a hand,
\* restarts the hold.
C1_PressOnlyAfterContinuousHold ==
    (AfterHandFrame /\ CountCmd(sent, "press") > 0)
        => /\ hist.stable \in DragGestures
           /\ now - hist.drag_since > config.DRAG_HOLD_TIME

\* C2, as claimed: at the end of every non-paused frame whose stable gesture
\* is not DRAG/FIST, is_dragging is False.
C2_NonDragFrameReleases ==
    (AfterHandFrame /\ ~hist.paused /\ hist.stable \notin DragGestures)
        => ~is_dragging

C8_TerminationReleases ==
    ~running
        => /\ hist.op = "cleanup"
           /\ ~is_dragging
           /\ hist.balance = 0
           /\ CountCmd(sent, "release") = (IF hist.was_dragging THEN 1 ELSE 0)

\* The loop was ended by an exception in a frame while the button was down
C8_Witness == ~running /\ hist.frame = "raised" /\ hist.was_dragging

-----------------------------------------------------------------------------
(* The pause loop: the frame loop on frames that toggle the pause, point    *)
(* and drag, under the default and under a longer Config.PAUSE_COOLDOWN    *)

PauseLoopGestures == {"THUMBS_UP", "POINT", "DRAG"}

\* Config.PAUSE_COOLDOWN as configured: the default 1.0 s, and 1.2 s
PauseCooldowns == {DefaultConfig.PAUSE_COOLDOWN, 12}

InitPause ==
    \E pc \in PauseCooldowns : InitWith([LoopConfig EXCEPT !.PAUSE_COOLDOWN = pc])

NextPause ==
    \/ Tick(PauseHorizon)
    \/ \E g \in PauseLoopGestures, tip \in FrameTips : Frame(g, tip)
    \/ NoHandFrame

SpecPause == InitPause /\ [][NextPause]_vars

\* C5, as claimed: while THUMBS_UP remains the stable gesture on consecutive
\* frames, the paused state toggles at most once.
C5_OneTogglePerHold == hist.hold_toggles <= 1

\* C5, amended: every frame whose stable gesture is THUMBS_UP attempts a
\* toggle, accepted iff more than 1.0 s has passed since the last accepted
\* one: accepted toggles are more than 1.0 s apart, and after such a frame
\* the last accepted toggle is at most 1.0 s old, so holding THUMBS_UP
\* longer than that toggles again.
C5_ToggleEveryCooldown ==
    /\ hist.toggles[1] # 0 => hist.toggles[2] - hist.toggles[1] > ToggleCooldownLiteral
    /\ (AfterHandFrame /\ hist.stable = "THUMBS_UP")
          => now - hist.toggles[2] <= ToggleCooldownLiteral

\* THUMBS_UP was held through a second toggle
C5_Witness == AfterHandFrame /\ hist.stable = "THUMBS_UP" /\ hist.hold_toggles = 2

\* C6, as claimed: two accepted toggles are never closer together than the
\* configured Config.PAUSE_COOLDOWN.
C6_TogglesRespectConfiguredCooldown ==
    hist.toggles[1] # 0 => hist.toggles[2] - hist.toggles[1] >= config.PAUSE_COOLDOWN

\* C7: a frame dispatched while paused sends no click, scroll, hotkey, move
\* or press to the sink, leaves no drag in progress, and feeds the
\* stabilizer.
C7_PausedFrameSendsNothing ==
    (AfterHandFrame /\ hist.paused)
        => /\ \A i \in 1..Len(sent) : sent[i].cmd = "release"
           /\ ~is_dragging
           /\ gesture_buffer # << >>
           /\ gesture_buffer[Len(gesture_buffer)] = hist.raw

\* A frame dispatched while paused whose stable gesture moves the cursor
\* when active
C7_Witness == AfterHandFrame /\ hist.paused /\ hist.stable = "POINT" /\ hist.raw = "DRAG"

-----------------------------------------------------------------------------
(* OSController called directly, in any order, while time passes *)

Methods ==
    {"left_click", "right_click", "double_click", "start_drag", "stop_drag", "release_all"}

Call(method) ==
    LET s2 == CASE method = "left_click"   -> left_click(State)
                [] method = "right_click"  -> right_click(State)
                [] method = "double_click" -> double_click(State)
                [] method = "start_drag"   -> start_drag(State)
                [] method = "stop_drag"    -> stop_drag(State)
                [] method = "release_all"  -> release_all(State)
    IN  /\ Becomes(s2)
        /\ hist' = Called(hist, State, s2, method)

InitCalls == InitWith(DefaultConfig)

NextCalls ==
    \/ Tick(CallHorizon)
    \/ \E method \in Methods : Call(method)

SpecCalls == InitCalls /\ [][NextCalls]_vars

\* C4: two left clicks received by the sink are never less than
\* LEFT_CLICK_COOLDOWN apart, so a call within the cooldown of the last
\* performed click performs none; each cooldown timestamp is the time of the
\* last performed click of its own kind: a rejected call leaves it
\* unchanged and the clicks of the other kinds do not touch it.
C4_LeftClickCooldown ==
    /\ hist.left_clicks[1] # 0
          => hist.left_clicks[2] - hist.left_clicks[1] >= config.LEFT_CLICK_COOLDOWN
    /\ CountCmd(sent, "left_click") <= 1
    /\ last_left_click_time = hist.left_clicks[2]
    /\ last_right_click_time = hist.right_click
    /\ last_double_click_time = hist.double_click

\* left_click is rejected within its cooldown although a right click and a
\* double click were performed after the last left click
C4_Witness ==
    /\ hist.op = "call"
    /\ hist.called = "left_click"
    /\ sent = << >>
    /\ hist.left_clicks[2] # 0
    /\ hist.left_clicks[2] < now
    /\ hist.right_click > hist.left_clicks[2]
    /\ hist.double_click > hist.left_clicks[2]

-----------------------------------------------------------------------------
(* The two stabilizers fed the same labels, and reset together *)

FedLabels == {"POINT", "VICTORY", "FIST"}

\* <<GESTURE_BUFFER_SIZE, GESTURE_CONFIDENCE_THRESHOLD>> as configured: the
\* defaults, and two smaller windows
Windows == {<<5, 3>>, <<4, 2>>, <<3, 2>>}

Feed(gesture) ==
    LET s2 == update(stabilize_gesture(State, gesture), gesture)
    IN  /\ Becomes(s2)
        /\ hist' = [Fed(Sink(hist, State, s2, "feed"), State) EXCEPT
                       !.raw = gesture,
                       !.run = IF hist.op = "feed" /\ hist.raw = gesture
                               THEN Min(@ + 1, Max(config.GESTURE_BUFFER_SIZE,
                                                   settings.GESTURE_BUFFER_SIZE))
                               ELSE 1]

Reset ==
    LET s2 == stabilizer_reset(reset(State))
    IN  /\ Becomes(s2)
        /\ hist' = [Sink(hist, State, s2, "reset") EXCEPT
                       !.pushes = 0, !.raw = None, !.run = 0,
                       !.prev_current = None, !.prev_stable = None]

InitStab ==
    \E w \in Windows :
        InitWith([DefaultConfig EXCEPT !.GESTURE_BUFFER_SIZE = w[1],
                                       !.GESTURE_CONFIDENCE_THRESHOLD = w[2]])

NextStab ==
    \/ \E g \in FedLabels : Feed(g)
    \/ Reset

SpecStab == InitStab /\ [][NextStab]_vars

\* The highest count of a label in q
TopCount(q) == CHOOSE n \in 0..Len(q) :
    /\ \A i \in 1..Len(q) : Count(q, q[i]) <= n
    /\ q # << >> => \E i \in 1..Len(q) : Count(q, q[i]) = n

\* stabilize_gesture has been fed window_size labels or more
WindowFull == hist.op = "feed" /\ hist.pushes >= config.GESTURE_BUFFER_SIZE

\* C9: once window_size labels are in the buffer, a call leaves the last
\* window_size labels in it and, if the most frequent of them occurs
\* confidence_threshold times or more, stores and returns a most frequent
\* label; otherwise it returns the stored label and leaves it as it was.
C9_FullWindowMajority ==
    WindowFull
        => /\ Len(gesture_buffer) = config.GESTURE_BUFFER_SIZE
           /\ gesture_buffer[Len(gesture_buffer)] = hist.raw
           /\ ret.stabilize_gesture = current_gesture
           /\ IF TopCount(gesture_buffer) >= config.GESTURE_CONFIDENCE_THRESHOLD
              THEN Count(gesture_buffer, current_gesture) = TopCount(gesture_buffer)
              ELSE current_gesture = hist.prev_current

\* A full window whose most frequent label occurs confidence_threshold - 1
\* times leaves a label stored earlier
C9_Witness ==
    /\ WindowFull
    /\ TopCount(gesture_buffer) = config.GESTURE_CONFIDENCE_THRESHOLD - 1
    /\ current_gesture # None
    /\ Count(gesture_buffer, current_gesture) < TopCount(gesture_buffer)

\* C10, as claimed: while fewer than window_size labels have been fed since
\* construction or reset, an update of either stabilizer returns the label
\* stored before and does not change it.
C10_NothingBeforeFull ==
    /\ (hist.op = "feed" /\ hist.pushes < config.GESTURE_BUFFER_SIZE)
          => /\ ret.stabilize_gesture = hist.prev_current
             /\ current_gesture = hist.prev_current
    /\ (hist.op = "feed" /\ hist.pushes < settings.GESTURE_BUFFER_SIZE)
          => /\ ret.update = hist.prev_stable
             /\ last_stable = hist.prev_stable

\* C10, amended: while fewer than window_size labels have been fed,
\* GestureRecognizer.stabilize_gesture returns None and stores nothing;
\* GestureStabilizer.update stores and returns the fed label as soon as its
\* buffer holds GESTURE_THRESHOLD occurrences of it, full or not, and
\* otherwise returns the label stored before, unchanged.
C10_RecognizerWaitsStabilizerDoesNot ==
    /\ (hist.op = "feed" /\ hist.pushes < config.GESTURE_BUFFER_SIZE)
          => /\ ret.stabilize_gesture = None
             /\ current_gesture = None
             /\ hist.prev_current = None
    /\ hist.op = "feed"
          => /\ ret.update = last_stable
             /\ IF Count(buf, hist.raw) >= settings.GESTURE_THRESHOLD
                THEN last_stable = hist.raw
                ELSE last_stable = hist.prev_stable

\* confidence_threshold identical labels in a window that is not full: the
\* recognizer returns None, the stabilizer the label
C10_Witness ==
    /\ hist.op = "feed"
    /\ hist.pushes < config.GESTURE_BUFFER_SIZE
    /\ Count(gesture_buffer, hist.raw) >= config.GESTURE_CONFIDENCE_THRESHOLD
    /\ ret.stabilize_gesture = None
    /\ ret.update = hist.raw

\* C11: the stabilized label is sticky. A stabilize_gesture call never turns
\* a stored label into None, it changes the stored label only to a label
\* that occurs confidence_threshold times or more in the buffer, and the
\* buffer never holds more than window_size labels; reset() clears the label.
C11_StickyStabilizedGesture ==
    /\ Len(gesture_buffer) <= config.GESTURE_BUFFER_SIZE
    /\ hist.op = "feed"
          => /\ hist.prev_current # None => current_gesture # None
             /\ current_gesture # hist.prev_current
                   => Count(gesture_buffer, current_gesture)
                          >= config.GESTURE_CONFIDENCE_THRESHOLD
    /\ hist.op = "reset" => current_gesture = None /\ gesture_buffer = << >>

\* A call on a full window in which no label reaches the threshold keeps the
\* label stored earlier, the label fed being another one
C11_Witness ==
    /\ WindowFull
    /\ TopCount(gesture_buffer) < config.GESTURE_CONFIDENCE_THRESHOLD
    /\ hist.prev_current # None
    /\ current_gesture = hist.prev_current
    /\ hist.raw # current_gesture

\* C12: after window_size consecutive stabilize_gesture calls with the same
\* label L, whatever the buffer and the stored label were before, the last
\* call returns L and the stored label is L (confidence_threshold being at
\* most window_size).
C12_SameLabelWindowTimes ==
    (/\ hist.op = "feed"
     /\ hist.run >= config.GESTURE_BUFFER_SIZE
     /\ config.GESTURE_CONFIDENCE_THRESHOLD <= config.GESTURE_BUFFER_SIZE)
        => /\ ret.stabilize_gesture = hist.raw
           /\ current_gesture = hist.raw

\* The window_size-th call of such a run, started on an empty buffer, is
\* the first to return a label
C12_Witness ==
    /\ hist.op = "feed"
    /\ hist.run = config.GESTURE_BUFFER_SIZE
    /\ hist.pushes = config.GESTURE_BUFFER_SIZE
    /\ hist.prev_current = None
    /\ ret.stabilize_gesture = hist.raw

-----------------------------------------------------------------------------
(* GestureRecognizer.detect_swipe called with arbitrary fingertips *)

\* Fingertips <<x, y>> in units of 0.001: displacements below, at and above
\* SWIPE_THRESHOLD (0.15; 90^2 + 120^2 = 150^2) in every direction
SwipeTips == {<<tx, ty>> : tx \in {0, 90, 200}, ty \in {0, 120, 200}}

DetectSwipe(tip) ==
    LET s2 == detect_swipe(State, tip)
    IN  /\ Becomes(s2)
        /\ hist' = [Sink(hist, State, s2, "detect_swipe") EXCEPT
                       !.tip = tip, !.prev_history = position_history]

\* The history configured to 3 positions (Config.load_from_dict)
InitSwipeCalls == InitWith([DefaultConfig EXCEPT !.SWIPE_BUFFER_SIZE = 3])

NextSwipeCalls ==
    \/ \E tip \in SwipeTips : DetectSwipe(tip)
    \/ Reset

SpecSwipeCalls == InitSwipeCalls /\ [][NextSwipeCalls]_vars

\* position_history as a call with fingertip tip leaves it when it found q:
\* the sample is added at the end and, if q was full, the oldest is dropped
Sampled(q, tip) ==
    IF Len(q) < config.SWIPE_BUFFER_SIZE THEN Append(q, tip) ELSE Append(Tail(q), tip)

\* newest sample minus oldest sample of the history
Displacement(q) == <<q[Len(q)][1] - q[1][1], q[Len(q)][2] - q[1][2]>>

\* The displacement d is SWIPE_THRESHOLD long or longer
Significant(d) ==
    d[1] * d[1] + d[2] * d[2] >= config.SWIPE_THRESHOLD * config.SWIPE_THRESHOLD

\* C15: the position history never holds more than swipe_window samples, a
\* call adds its sample at the end and evicts the oldest one when the
\* history was full, and detect_swipe returns None whenever the history
\* holds fewer than swipe_window samples after that.
C15_HistoryBoundedAndNoneBeforeFull ==
    /\ Len(position_history) <= config.SWIPE_BUFFER_SIZE
    /\ hist.op = "detect_swipe"
          => /\ position_history = Sampled(hist.prev_history, hist.tip)
             /\ Len(position_history) < config.SWIPE_BUFFER_SIZE
                   => ret.detect_swipe = None

\* A history one sample short of full, whose displacement is long enough for
\* a swipe, gives None
C15_Witness ==
    /\ hist.op = "detect_swipe"
    /\ Len(position_history) = config.SWIPE_BUFFER_SIZE - 1
    /\ Significant(Displacement(position_history))
    /\ ret.detect_swipe = None

\* C16: with a full history detect_swipe reports a swipe iff the displacement
\* (dx, dy) from the oldest to the newest sample satisfies
\* dx^2 + dy^2 >= swipe_threshold^2; the direction is RIGHT or LEFT by the
\* sign of dx if |dx| > |dy|, otherwise DOWN if dy > 0 and UP if dy <= 0;
\* the samples in between have no influence.
C16_SwipeByDisplacement ==
    (hist.op = "detect_swipe" /\ Len(hist.prev_history) >= config.SWIPE_BUFFER_SIZE - 1)
        => LET oldest == hist.prev_history[Len(hist.prev_history)
                                               - config.SWIPE_BUFFER_SIZE + 2]
               dx == hist.tip[1] - oldest[1]
               dy == hist.tip[2] - oldest[2]
           IN  ret.detect_swipe =
                  IF ~Significant(<<dx, dy>>) THEN None
                  ELSE IF Abs(dx) > Abs(dy) /\ dx > 0 THEN "RIGHT"
                  ELSE IF Abs(dx) > Abs(dy) /\ dx < 0 THEN "LEFT"
                  ELSE IF dy > 0 THEN "DOWN"
                  ELSE "UP"

\* A displacement exactly swipe_threshold long is reported, across a sample
\* in between that lies far off
C16_Witness ==
    /\ hist.op = "detect_swipe"
    /\ Len(position_history) = config.SWIPE_BUFFER_SIZE
    /\ Displacement(position_history) = <<90, 120>>
    /\ position_history[2] = <<200, 0>>
    /\ ret.detect_swipe = "DOWN"

-----------------------------------------------------------------------------
(* The frame loop with a moving hand that points and scrolls *)

SwipeLoopGestures == {"POINT", "SCROLL"}

\* Index fingertips of a hand that sweeps horizontally
SweepTips == {<<100, 500>>, <<300, 500>>, <<500, 500>>}

NextSwipe ==
    \/ Tick(SweepHorizon)
    \/ \E g \in SwipeLoopGestures, tip \in SweepTips : Frame(g, tip)
    \/ NoHandFrame

SpecSwipe == Init /\ [][NextSwipe]_vars

\* The commands of _execute_swipe_action
SwipeCommands == {"hotkey_alt_left", "hotkey_alt_right", "volumeup", "volumedown"}

\* The swipe commands among the commands q
SwipesSent(q) == Cardinality({i \in 1..Len(q) : q[i].cmd \in SwipeCommands})

\* detect_swipe reported a swipe in the last frame
SwipeReported == AfterHandFrame /\ ret.detect_swipe \notin {None, NotCalled}

\* C13: in the dispatcher's swipe path a frame that reports a swipe leaves
\* the position history empty and sends one swipe action, and no swipe is
\* reported within the cooldown of 0.5 s after a reported one.
C13_SwipeClearsAndCoolsDown ==
    /\ AfterHandFrame => SwipesSent(sent) = (IF SwipeReported THEN 1 ELSE 0)
    /\ SwipeReported
          => /\ position_history = << >>
             /\ hist.swipes[1] = 0 \/ hist.swipes[2] - hist.swipes[1] >= cooldown

\* C17: every processed frame with a hand adds exactly one sample, the index
\* fingertip of that frame, to the position history, whatever the stable
\* gesture of the frame is.
C17_EveryHandFrameSampled ==
    AfterHandFrame => position_history = Sampled(hist.prev_history, hist.tip)

-----------------------------------------------------------------------------
(* SwipeDetector.update called with arbitrary fingertips, and time passing *)

\* tip.x in units of 0.001: two positions more than SWIPE_THRESHOLD apart
SwipeXs == {100, 300}

SwipeUpdate(tip_x) ==
    LET s2 == swipe_update(State, tip_x)
        reported == s2.ret.swipe_update # None
    IN  /\ Becomes(s2)
        /\ hist' = [Sink(hist, State, s2, "swipe_update") EXCEPT
                       !.sample  = tip_x,
                       !.prev_x  = x,
                       !.reports = Shift(@, now, IF reported THEN 1 ELSE 0),
                       !.samples = Min((IF hist.fresh THEN 0 ELSE @) + 1,
                                       settings.SWIPE_BUFFER_SIZE),
                       !.fresh   = reported]

SwipeReset ==
    LET s2 == swipe_reset(State)
    IN  /\ Becomes(s2)
        /\ hist' = [Sink(hist, State, s2, "swipe_reset") EXCEPT
                       !.fresh = TRUE, !.samples = 0]

InitSwipeDetector == InitWith(DefaultConfig)

NextSwipeDetector ==
    \/ Tick(SwipeHorizon)
    \/ \E tip_x \in SwipeXs : SwipeUpdate(tip_x)
    \/ SwipeReset

SpecSwipeDetector == InitSwipeDetector /\ [][NextSwipeDetector]_vars

\* The buffer the last update call tested: what it found, and its sample
Tested == IF Len(hist.prev_x) < settings.SWIPE_BUFFER_SIZE
          THEN Append(hist.prev_x, hist.sample)
          ELSE Append(Tail(hist.prev_x), hist.sample)

\* C14: SwipeDetector.update reports RIGHT (LEFT) for a full buffer whose
\* newest x exceeds (falls short of) its oldest x by more than the threshold,
\* unless the last report is less than the cooldown ago; a report empties
\* the buffer; no call less than the cooldown (0.5 s) after a report
\* reports, however the buffer has refilled; and a report takes
\* SWIPE_BUFFER_SIZE samples since the report or reset before it.
C14_SwipeDetectorReportsOnce ==
    hist.op = "swipe_update"
        => LET dx       == Tested[Len(Tested)] - Tested[1]
               full     == Len(Tested) = settings.SWIPE_BUFFER_SIZE
               before   == IF ret.swipe_update = None
                           THEN hist.reports[2] ELSE hist.reports[1]
               cooled   == now - before >= cooldown
           IN  /\ ret.swipe_update =
                     IF full /\ cooled /\ dx > settings.SWIPE_THRESHOLD THEN "RIGHT"
                     ELSE IF full /\ cooled /\ dx < -settings.SWIPE_THRESHOLD THEN "LEFT"
                     ELSE None
               /\ x = IF ret.swipe_update = None THEN Tested ELSE << >>
               /\ ret.swipe_update # None
                     => hist.samples = settings.SWIPE_BUFFER_SIZE

\* Less than the cooldown after a report the buffer is full again of
\* positions that move right by more than the threshold, and update
\* returns None
C14_Witness ==
    /\ hist.op = "swipe_update"
    /\ hist.reports[2] # 0
    /\ now - hist.reports[2] < cooldown
    /\ Len(x) = settings.SWIPE_BUFFER_SIZE
    /\ x[Len(x)] - x[1] > settings.SWIPE_THRESHOLD
    /\ ret.swipe_update = None

-----------------------------------------------------------------------------
(* GestureRecognizer.recognize_gesture called with arbitrary finger states *)

\* finger_states: all 32 well-formed dictionaries; None, the empty
\* dictionary, a list, dictionaries with a key missing and with other keys
\* only; and the dictionaries with one key more than the required ones
FingerStates ==
    {Dict(items) : items \in [Fingers -> BOOLEAN]}
    \cup {NoneType, Dict(<< >>), List([i \in {"0"} |-> TRUE]),
          Dict([f \in Fingers \ {"pinky"} |-> TRUE]),
          Dict([f \in {"invalid"} |-> TRUE])}
    \cup {Dict(items) : items \in [Fingers \cup {"extra"} -> BOOLEAN]}

\* Distances between thumb tip and index tip in units of 0.001: none, an
\* exception, and distances around PINCH_THRESHOLD (0.05)
PinchDistances == {NoDistance, Raises} \cup {Distance(d) : d \in {0, 30, 50, 80}}

PalmThresholds == 1..5

Recognize(finger_states, thumb_index_dist) ==
    LET s2 == recognize_gesture(State, finger_states, thumb_index_dist)
    IN  /\ Becomes(s2)
        /\ hist' = [Sink(hist, State, s2, "recognize_gesture") EXCEPT
                       !.fingers_type = finger_states.type,
                       !.fingers = finger_states.items,
                       !.pinch = thumb_index_dist,
                       !.prev_buffer = gesture_buffer,
                       !.prev_current = current_gesture,
                       !.prev_history = position_history,
                       !.prev_two_hands = two_hands_buffer]

InitRecognize ==
    \E p \in PalmThresholds : InitWith([DefaultConfig EXCEPT !.PALM_THRESHOLD = p])

NextRecognize ==
    \E fs \in FingerStates, d \in PinchDistances : Recognize(fs, d)

SpecRecognize == InitRecognize /\ [][NextRecognize]_vars

\* recognize_gesture was called with well-formed finger states
Recognized ==
    /\ hist.op = "recognize_gesture"
    /\ hist.fingers_type = "dict"
    /\ DOMAIN hist.fingers = Fingers

\* Exactly the fingers of the set are extended
Exactly(set) == Extended(hist.fingers) = set

\* C18: without a pinch distance recognize_gesture is the first-match
\* decision table: RIGHT_CLICK if count >= palm_threshold and index, middle,
\* ring are extended; else FIST if count = 0; else VICTORY if exactly
\* index+middle; else THREE_FINGERS if exactly index+middle+ring; else POINT
\* if exactly index; else THUMBS_UP if thumb and neither index nor middle;
\* else IDLE.
C18_DecisionTable ==
    (Recognized /\ hist.pinch = NoDistance)
        => ret.recognize_gesture =
              IF /\ Cardinality(Extended(hist.fingers)) >= config.PALM_THRESHOLD
                 /\ {"index", "middle", "ring"} \subseteq Extended(hist.fingers)
              THEN "RIGHT_CLICK"
              ELSE IF Exactly({}) THEN "FIST"
              ELSE IF Exactly({"index", "middle"}) THEN "VICTORY"
              ELSE IF Exactly({"index", "middle", "ring"}) THEN "THREE_FINGERS"
              ELSE IF Exactly({"index"}) THEN "POINT"
              ELSE IF "thumb" \in Extended(hist.fingers)
                      /\ Extended(hist.fingers) \cap {"index", "middle"} = {}
              THEN "THUMBS_UP"
              ELSE "IDLE"

\* C19: with a pinch distance d < pinch_threshold, d = 0 included,
\* recognize_gesture returns LEFT_CLICK if exactly thumb and index are
\* extended, DRAG if exactly index and middle are, and SCROLL in every other
\* case where thumb and index are both extended.
C19_PinchTakesPrecedence ==
    (Recognized /\ hist.pinch[1] = "distance"
                /\ hist.pinch[2] < config.PINCH_THRESHOLD)
        => /\ Exactly({"thumb", "index"}) => ret.recognize_gesture = "LEFT_CLICK"
           /\ Exactly({"index", "middle"}) => ret.recognize_gesture = "DRAG"
           /\ ({"thumb", "index"} \subseteq Extended(hist.fingers)
                  /\ ~Exactly({"thumb", "index"}))
                 => ret.recognize_gesture = "SCROLL"

\* C20: without a pinch recognize_gesture returns VICTORY exactly when index
\* and middle are extended and thumb, ring and pinky are not.
C20_VictoryIsExactlyIndexMiddle ==
    (Recognized /\ hist.pinch = NoDistance)
        => (ret.recognize_gesture = "VICTORY" <=> Exactly({"index", "middle"}))

\* C21: without a pinch recognize_gesture returns POINT exactly when the
\* index finger is extended and thumb, middle, ring and pinky are not.
C21_PointIsExactlyIndex ==
    (Recognized /\ hist.pinch = NoDistance)
        => (ret.recognize_gesture = "POINT" <=> Exactly({"index"}))

\* C22: without a pinch recognize_gesture returns THREE_FINGERS exactly when
\* index, middle and ring are extended, thumb and pinky are not, and
\* palm_threshold > 3; with palm_threshold <= 3 that finger set gives
\* RIGHT_CLICK and no finger set gives THREE_FINGERS.
C22_ThreeFingersAbovePalmThreshold ==
    (Recognized /\ hist.pinch = NoDistance)
        => /\ ret.recognize_gesture = "THREE_FINGERS"
                 <=> (Exactly({"index", "middle", "ring"}) /\ config.PALM_THRESHOLD > 3)
           /\ (Exactly({"index", "middle", "ring"}) /\ config.PALM_THRESHOLD <= 3)
                 => ret.recognize_gesture = "RIGHT_CLICK"

\* The finger_states of the last recognize_gesture call is not a dictionary
\* with exactly the five required keys
Malformed ==
    /\ hist.op = "recognize_gesture"
    /\ \/ hist.fingers_type # "dict"
       \/ DOMAIN hist.fingers # Fingers

\* C23: recognize_gesture returns IDLE, and raises nothing, for every
\* finger_states that is None, empty, not a dictionary, or whose keys are not
\* exactly thumb, index, middle, ring and pinky (keys missing or keys added).
C23_MalformedFingerStatesAreIdle ==
    Malformed => ret.recognize_gesture = "IDLE"

----------------------------------------------------------------------------
(* The calls of a GestureRecognizer in any order: recognize_gesture,        *)
(* stabilize_gesture, detect_swipe, recognize_two_handed_gesture and reset  *)

PureLabels == {"POINT", "FIST"}

PureTips == {<<0, 0>>, <<200, 0>>}

PureFingerStates ==
    {NoneType,
     Dict([f \in Fingers |-> FALSE]),
     Dict([f \in Fingers |-> f = "index"]),
     Dict([f \in Fingers |-> f \in {"thumb", "index"}])}

PureDistances == {NoDistance, Distance(30)}

\* A detected hand: the number of its landmarks and of its extended fingers
Hand(landmarks, extended) == [landmarks |-> landmarks, extended |-> extended]

\* The hands of a frame: none, one, two open ones, an open one with a closed
\* or with an incomplete one
PureHands ==
    {<< >>, <<Hand(21, 5)>>, <<Hand(21, 5), Hand(21, 4)>>,
     <<Hand(21, 5), Hand(21, 2)>>, <<Hand(21, 5), Hand(20, 0)>>}

\* What the state of the recognizer was before a call
Before(h) ==
    [h EXCEPT !.prev_buffer = gesture_buffer,
              !.prev_current = current_gesture,
              !.prev_history = position_history,
              !.prev_two_hands = two_hands_buffer]

PureRecognize(finger_states, thumb_index_dist) ==
    LET s2 == recognize_gesture(State, finger_states, thumb_index_dist)
    IN  /\ Becomes(s2)
        /\ hist' = [Before(Sink(hist, State, s2, "recognize_gesture")) EXCEPT
                       !.fingers_type = finger_states.type,
                       !.fingers = finger_states.items,
                       !.pinch = thumb_index_dist]

Stabilize(gesture) ==
    LET s2 == stabilize_gesture(State, gesture)
    IN  /\ Becomes(s2)
        /\ hist' = Before(Sink(hist, State, s2, "stabilize_gesture"))

PureDetectSwipe(tip) ==
    LET s2 == detect_swipe(State, tip)
    IN  /\ Becomes(s2)
        /\ hist' = Before(Sink(hist, State, s2, "detect_swipe"))

TwoHanded(hands, has_detector) ==
    LET s2 == recognize_two_handed_gesture(State, hands, has_detector)
    IN  /\ Becomes(s2)
        /\ hist' = Before(Sink(hist, State, s2, "recognize_two_handed_gesture"))

PureReset ==
    LET s2 == reset(State)
    IN  /\ Becomes(s2)
        /\ hist' = Before(Sink(hist, State, s2, "reset"))

\* The windows configured to 2 entries (Config.load_from_dict)
InitPure ==
    InitWith([DefaultConfig EXCEPT !.GESTURE_BUFFER_SIZE = 2,
                                   !.GESTURE_CONFIDENCE_THRESHOLD = 2,
                                   !.SWIPE_BUFFER_SIZE = 2,
                                   !.TWO_HANDS_CONFIDENCE_FRAMES = 2])

NextPure ==
    \/ \E fs \in PureFingerStates, d \in PureDistances : PureRecognize(fs, d)
    \/ \E g \in PureLabels : Stabilize(g)
    \/ \E tip \in PureTips : PureDetectSwipe(tip)
    \/ \E hands \in PureHands, d \in BOOLEAN : TwoHanded(hands, d)
    \/ PureReset

SpecPure == InitPure /\ [][NextPure]_vars

\* A recognizer as constructed, with the configuration of this one
Constructed ==
    [State EXCEPT !.gesture_buffer = << >>, !.current_gesture = None,
                  !.position_history = << >>, !.two_hands_buffer = << >>]

\* C24: recognize_gesture has no hidden state: it leaves the gesture buffer,
\* the stabilized label, the position history and the two-hands buffer as
\* they were, and after any calls it returns what a newly constructed
\* recognizer returns for the same finger states and pinch distance.
C24_RecognizeHasNoHiddenState ==
    hist.op = "recognize_gesture" =>
        /\ gesture_buffer = hist.prev_buffer
        /\ current_gesture = hist.prev_current
        /\ position_history = hist.prev_history
        /\ two_hands_buffer = hist.prev_two_hands
        /\ ret.recognize_gesture =
              recognize_gesture(Constructed,
                                [type |-> hist.fingers_type, items |-> hist.fingers],
                                hist.pinch).ret.recognize_gesture

\* recognize_gesture is called with an index finger on a recognizer whose
\* buffers are all filled and which has a stabilized label
C24_Witness ==
    /\ hist.op = "recognize_gesture"
    /\ Len(gesture_buffer) = config.GESTURE_BUFFER_SIZE
    /\ current_gesture = "FIST"
    /\ Len(position_history) = config.SWIPE_BUFFER_SIZE
    /\ two_hands_buffer = <<TRUE, TRUE>>
    /\ ret.recognize_gesture = "POINT"

----------------------------------------------------------------------------
(* The frame loop with failures: sink calls that raise, hands with too few  *)
(* landmarks, and reads of the camera that fail                             *)

FaultHorizon == 1

\* The loop is run with a gesture window of 1 label, a swipe history of 2
\* positions, no hold time, a click cooldown of 1 tick and a cursor
\* smoothing of 1 (Config.load_from_dict)
FaultConfig ==
    [DefaultConfig EXCEPT !.GESTURE_BUFFER_SIZE = 1,
                          !.GESTURE_CONFIDENCE_THRESHOLD = 1,
                          !.SWIPE_BUFFER_SIZE = 2,
                          !.DRAG_HOLD_TIME = 0,
                          !.LEFT_CLICK_COOLDOWN = 1,
                          !.CURSOR_SMOOTHING = <<1, 1>>]

FaultTips == {<<500, 500>>, <<800, 500>>, <<500, 800>>}

\* The frames: the gesture and the index fingertip.  The hand points
\* anywhere, scrolls at two heights, and clicks and drags in the middle
FaultFrames ==
    {<<"POINT", tip>> : tip \in FaultTips}
    \cup {<<"SCROLL", <<500, 500>>>>, <<"SCROLL", <<500, 800>>>>,
          <<"LEFT_CLICK", <<500, 500>>>>, <<"FIST", <<500, 500>>>>}

\* No sink call fails, or those of one kind do
FaultSets ==
    {{}, {"move"}, {"left_click"}, {"press"}, {"release"}, {"scroll"},
     {"hotkey_alt_left", "hotkey_alt_right"}, {"volumeup", "volumedown"}}

\* Hands of too few landmarks
LandmarkCounts == {0, 20}

\* One pass of the loop on a frame with a hand of that many landmarks, in
\* which the sink calls in fails raise
Iteration(gesture, tip, landmarks, fails) ==
    /\ running
    /\ LET frame == [gesture |-> gesture, tip |-> tip, landmarks |-> landmarks]
           s0 == [State EXCEPT !.fails = fails]
           s2 == run_iteration(s0, frame)
       IN  /\ Becomes(s2)
           /\ hist' = [Sink(hist, State, s2, "frame") EXCEPT
                          !.frame = IF landmarks = 21 THEN "hand" ELSE "malformed",
                          !.landmarks = landmarks,
                          !.failed = s2.failed,
                          !.raised = s2.printed]

\* One pass of the loop in which the read of the camera fails
ReadFails ==
    /\ running
    /\ LET s2 == read_fails(State)
       IN  /\ Becomes(s2)
           /\ hist' = [Sink(hist, State, s2, "read") EXCEPT !.frame = "read_failed"]

NextFaults ==
    \/ Tick(FaultHorizon)
    \/ \E frame \in FaultFrames, fails \in FaultSets :
          Iteration(frame[1], frame[2], 21, fails)
    \/ \E n \in LandmarkCounts : Iteration("POINT", <<500, 500>>, n, {})

InitFaults == InitWith(FaultConfig)

SpecFaults == InitFaults /\ [][NextFaults]_vars

\* The loop with reads that fail, on frames that point and drag
ReadGestures == {"POINT", "FIST"}

NextReads ==
    \/ Tick(FaultHorizon)
    \/ \E g \in ReadGestures, tip \in FaultTips : Iteration(g, tip, 21, {})
    \/ NoHandFrame
    \/ ReadFails

SpecReads == InitFaults /\ [][NextReads]_vars

\* C25, as claimed: a failed read of a frame is a skip: nothing is done in
\* that pass and the loop goes on.
C25_FailedReadIsSkipped ==
    hist.frame = "read_failed" => running /\ sent = << >>

\* C25: a failed read of a frame ends the loop: the session is cleaned up,
\* the button is released if and only if it was held, nothing else is sent,
\* and no later frame is read or processed.
C25_FailedReadEndsTheLoop ==
    hist.frame = "read_failed" =>
        /\ hist.op = "read"
        /\ ~running
        /\ ~is_dragging
        /\ sent = IF hist.was_dragging
                  THEN <<[cmd |-> "release", arg |-> 0]>>
                  ELSE << >>

\* A read fails while the button is held
C25_Witness ==
    /\ hist.frame = "read_failed"
    /\ hist.was_dragging
    /\ CountCmd(sent, "release") = 1

\* C26: a failure of any sink call (cursor move, click, press, release,
\* scroll, hotkey, volume key) is caught where it is called: no exception
\* leaves process_frame and the loop goes on.
C26_SinkFailuresAreCaught ==
    (hist.op = "frame" /\ hist.frame = "hand" /\ hist.failed # {}) =>
        hist.raised = None /\ running

\* C27: a frame whose hand has fewer than 21 landmarks is a frame without
\* effect: process_frame raises nothing, nothing is sent, and the loop goes on.
C27_MalformedHandIsIdle ==
    (hist.op = "frame" /\ hist.frame = "malformed") =>
        hist.raised = None /\ sent = << >> /\ running

----------------------------------------------------------------------------
(* The frame loop with scroll gestures and a fingertip that moves           *)
(* vertically                                                               *)

ScrollHorizon == 1

ScrollLoopGestures == {"SCROLL", "THREE_FINGERS", "POINT"}

ScrollTips == {<<500, 500>>, <<500, 510>>, <<500, 800>>}

\* The loop is run with a gesture window of 1 label (Config.load_from_dict)
ScrollConfig ==
    [LoopConfig EXCEPT !.GESTURE_BUFFER_SIZE = 1,
                       !.GESTURE_CONFIDENCE_THRESHOLD = 1]

\* One pass of the loop on a frame with a hand
ScrollFrame(gesture, tip) ==
    /\ running
    /\ LET s2 == run_iteration(State, [gesture |-> gesture, tip |-> tip,
                                       landmarks |-> 21])
       IN  /\ Becomes(s2)
           /\ hist' = [Framed(hist, State, s2, gesture, s2.ret.stabilize_gesture)
                          EXCEPT !.tip = tip,
                                 !.prev_tip = IF hist.frame = "hand"
                                              THEN hist.tip ELSE << >>,
                                 !.prev_gesture = IF hist.frame = "hand"
                                                  THEN hist.stable ELSE None]

InitScroll == InitWith(ScrollConfig)

NextScroll ==
    \/ Tick(ScrollHorizon)
    \/ \E g \in ScrollLoopGestures, tip \in ScrollTips : ScrollFrame(g, tip)
    \/ NoHandFrame

SpecScroll == InitScroll /\ [][NextScroll]_vars

ScrollGestures == {"SCROLL", "THREE_FINGERS"}

\* The last pass was on a frame with a hand whose stable gesture scrolls
AfterScrollFrame == AfterHandFrame /\ hist.stable \in ScrollGestures

\* What a scroll frame sends for the vertical delta dy
SentForDelta(dy) ==
    IF Abs(dy) > config.SCROLL_DEADZONE
    THEN scroll(State, TruncDiv(dy, 10)).sent
    ELSE << >>

\* C28: on a SCROLL/THREE_FINGERS frame the scroll delta is the fingertip y
\* of this frame minus the fingertip y of the frame processed immediately
\* before it; the first frame of a scroll episode sends no scroll computed
\* against a y of an earlier scroll episode.
C28_ScrollDeltaAgainstPrecedingFrame ==
    AfterScrollFrame =>
        /\ hist.prev_gesture \in ScrollGestures =>
              sent = SentForDelta(hist.tip[2] - hist.prev_tip[2])
        /\ hist.prev_gesture \notin ScrollGestures =>
              \/ sent = << >>
              \/ hist.prev_tip # << >> /\ sent = SentForDelta(hist.tip[2] - hist.prev_tip[2])

----------------------------------------------------------------------------
(* Scrolling: the scroll branch of GestureController, OSController.scroll   *)
(* called directly, and MouseController.scroll                              *)

ScrollMultipliers == {0, 1, 30, 180}

ScrollMaxAmounts == {50, 55}

\* Fingertip heights, in units of 0.001
ScrollYs == {0, 15, 16, 31, 600}

\* Amounts OSController.scroll is called with
ScrollAmounts == {-100, -2, -1, 0, 1, 2, 100}

\* Heights of the index tip below the index middle joint, in units of 0.001
MouseDeltas == {-500, -16, -15, -14, 0, 14, 15, 16, 500}

\* The scroll branch of _execute_gesture_action on a fingertip at height y
ScrollAction(y) ==
    LET s2 == scroll_action(State, <<500, y>>)
    IN  /\ Becomes(s2)
        /\ hist' = [Sink(hist, State, s2, "scroll_action") EXCEPT
                       !.delta = IF last_scroll_y = << >>
                                 THEN << >> ELSE <<y - last_scroll_y[1]>>,
                       !.amount = << >>]

ScrollCall(amount) ==
    LET s2 == scroll(State, amount)
    IN  /\ Becomes(s2)
        /\ hist' = [Sink(hist, State, s2, "scroll") EXCEPT
                       !.delta = << >>, !.amount = <<amount>>]

MouseScroll(dy) ==
    LET s2 == mouse_scroll(State, dy)
    IN  /\ Becomes(s2)
        /\ hist' = [Sink(hist, State, s2, "mouse_scroll") EXCEPT
                       !.delta = <<dy>>, !.amount = << >>]

\* The multiplier and the maximum are configured (Config.load_from_dict)
InitScrollCalls ==
    \E m \in ScrollMultipliers, a \in ScrollMaxAmounts :
        InitWith([DefaultConfig EXCEPT !.SCROLL_MULTIPLIER = m,
                                       !.SCROLL_MAX_AMOUNT = a])

NextScrollCalls ==
    \/ \E y \in ScrollYs : ScrollAction(y)
    \/ \E amount \in ScrollAmounts : ScrollCall(amount)
    \/ \E dy \in MouseDeltas : MouseScroll(dy)

SpecScrollCalls == InitScrollCalls /\ [][NextScrollCalls]_vars

\* One scroll command is sent, whose argument is within low..high
OneScrollWithin(low, high) ==
    /\ Len(sent) = 1
    /\ sent[1].cmd = "scroll"
    /\ low <= sent[1].arg /\ sent[1].arg <= high

\* What OSController.scroll sends for an amount: mouse.scroll(0, -a // 10)
\* for the scaled amount a if that is within the maximum, and always a
\* value that a clamped amount gives
ClampedScroll(amount) ==
    LET scaled == amount * config.SCROLL_MULTIPLIER
    IN  /\ OneScrollWithin((-config.SCROLL_MAX_AMOUNT) \div 10,
                           config.SCROLL_MAX_AMOUNT \div 10)
        /\ Abs(scaled) <= config.SCROLL_MAX_AMOUNT => sent[1].arg = (-scaled) \div 10

\* The parts of the claim on which both implementations agree with it:
\* GestureController sends nothing for a delta within the deadzone and a
\* clamped amount for a larger one, OSController.scroll clamps every amount,
\* and MouseController.scroll sends nothing for a delta below the deadzone
\* and a clamped amount for one above it
ScrollAsClaimed ==
    /\ (hist.op = "scroll_action" /\ hist.delta # << >>) =>
          IF Abs(hist.delta[1]) <= config.SCROLL_DEADZONE
          THEN sent = << >>
          ELSE ClampedScroll(TruncDiv(hist.delta[1], 10))
    /\ hist.op = "scroll" => ClampedScroll(hist.amount[1])
    /\ hist.op = "mouse_scroll" =>
          /\ Abs(hist.delta[1]) < settings.SCROLL_DEADZONE => sent = << >>
          /\ Abs(hist.delta[1]) > settings.SCROLL_DEADZONE =>
                OneScrollWithin(-settings.SCROLL_MAX_AMOUNT, settings.SCROLL_MAX_AMOUNT)

\* C29, as claimed: no scroll command is sent for a vertical delta whose
\* magnitude does not exceed SCROLL_DEADZONE, and the scaled amount of a
\* larger one is clamped to the maximum before it is sent.
C29_NoScrollWithinDeadzone ==
    /\ ScrollAsClaimed
    /\ (hist.op = "mouse_scroll" /\ Abs(hist.delta[1]) = settings.SCROLL_DEADZONE) =>
          sent = << >>

\* C29: GestureController sends no scroll command for a vertical delta whose
\* magnitude does not exceed SCROLL_DEADZONE, MouseController.scroll sends
\* none for one below SCROLL_DEADZONE and does send one for a delta equal to
\* it; every amount that is sent is the scaled amount clamped to the maximum,
\* for every amount and every configured multiplier.
C29_DeadzoneAndClamp ==
    /\ ScrollAsClaimed
    /\ (hist.op = "mouse_scroll" /\ Abs(hist.delta[1]) = settings.SCROLL_DEADZONE) =>
          OneScrollWithin(-settings.SCROLL_MAX_AMOUNT, settings.SCROLL_MAX_AMOUNT)

\* The scroll branch sends a scroll whose scaled amount exceeds the maximum
C29_Witness ==
    /\ hist.op = "scroll_action"
    /\ hist.delta # << >>
    /\ TruncDiv(hist.delta[1], 10) * config.SCROLL_MULTIPLIER > config.SCROLL_MAX_AMOUNT
    /\ config.SCROLL_MAX_AMOUNT = 55
    /\ sent = <<[cmd |-> "scroll", arg |-> -6]>>

----------------------------------------------------------------------------
(* OSController.move_cursor called on any normalized positions *)

MaxMoves == 3

\* Smoothing factors 0, 0.5, 0.6 and 1
Smoothings == {<<0, 1>>, <<1, 2>>, <<3, 5>>, <<1, 1>>}

\* Speed multipliers -1.0, 0, 0.5, 1.0 and 2.5, in tenths
SpeedMultipliers == {-10, 0, 5, 10, 25}

\* Normalized coordinates in units of 0.001, also outside [0, 1]
MoveXs == {-200, 0, 300, 995, 1000, 1500}

MoveYs == {-100, 500, 1000, 1200}

MoveCursor(normalized_x, normalized_y) ==
    /\ hist.moves < MaxMoves
    /\ LET s2 == move_cursor(State, normalized_x, normalized_y)
       IN  /\ Becomes(s2)
           /\ hist' = [Sink(hist, State, s2, "move_cursor") EXCEPT
                          !.moves = @ + 1,
                          !.tip = <<normalized_x, normalized_y>>,
                          !.prev_position = <<current_x, current_y>>,
                          !.target = <<target_x(config, normalized_x),
                                       target_y(config, normalized_y)>>]

\* The smoothing and the speed are configured (Config.load_from_dict)
InitMove ==
    \E a \in Smoothings, m \in SpeedMultipliers :
        InitWith([DefaultConfig EXCEPT !.CURSOR_SMOOTHING = a,
                                       !.MOUSE_SPEED_MULTIPLIER = m])

NextMove == \E nx \in MoveXs, ny \in MoveYs : MoveCursor(nx, ny)

SpecMove == InitMove /\ [][NextMove]_vars

----------------------------------------------------------------------------
(* Config.load_from_dict called on dictionaries with names of settings, of  *)
(* methods and of nothing                                                   *)

\* Dictionaries of one key, and of a setting with an unknown key
ConfigDicts ==
    {[key \in {"PALM_THRESHOLD"} |-> 4],
     [key \in {"PALM_THRESHOLD"} |-> 5],
     [key \in {"SCROLL_MULTIPLIER"} |-> 60],
     [key \in {"SWIPE_BUFFER_SIZE"} |-> 3],
     [key \in {"CURSOR_SMOOTHING"} |-> <<1, 2>>],
     [key \in {"UNKNOWN_SETTING"} |-> 1],
     [key \in {"GESTURE_BUFFER_SIZE", "unknown"} |-> 3],
     [key \in {"to_dict"} |-> "overwritten"],
     [key \in {"load_from_dict"} |-> "overwritten"],
     << >>}

LoadFromDict(config_dict) ==
    LET s2 == [State EXCEPT !.config = load_from_dict(config, config_dict)]
    IN  /\ Becomes(s2)
        /\ hist' = [Sink(hist, State, s2, "load_from_dict") EXCEPT
                       !.config_dict = config_dict,
                       !.prev_config = config]

InitConfig == InitWith(DefaultConfig)

NextConfig == \E config_dict \in ConfigDicts : LoadFromDict(config_dict)

SpecConfig == InitConfig /\ [][NextConfig]_vars

\* C33: load_from_dict changes a value only for the keys that are settings:
\* a setting named in the dictionary takes the value given, and every other
\* key, unknown or the name of a method, is ignored: all other settings and
\* the methods of Config are as before.
C33_OnlySettingsAreLoaded ==
    hist.op = "load_from_dict" =>
        /\ DOMAIN config = DOMAIN hist.prev_config
        /\ \A key \in DOMAIN config :
              IF key \in Exported(config) /\ key \in DOMAIN hist.config_dict
              THEN config[key] = hist.config_dict[key]
              ELSE config[key] = hist.prev_config[key]

----------------------------------------------------------------------------
(* Cursor smoothing: OSController.move_cursor under smoothing factors that  *)
(* are loaded between the moves, and MouseController.move                   *)

\* Normalized positions whose target x is 100 or next to it, and 0
SmoothTips == {<<5, 500>>, <<15, 500>>, <<1000, 1000>>}

SmoothingDicts == {[key \in {"CURSOR_SMOOTHING"} |-> a] : a \in Smoothings}

MouseTips == {<<0, 0>>, <<300, 990>>, <<1200, -100>>}

MouseMove(tip) ==
    /\ hist.moves < MaxMoves
    /\ LET s2 == mouse_move(State, tip)
       IN  /\ Becomes(s2)
           /\ hist' = [Sink(hist, State, s2, "mouse_move") EXCEPT
                          !.moves = @ + 1,
                          !.tip = tip,
                          !.prev_position = <<<<px, 1>>, <<py, 1>>>>,
                          !.target = <<TruncDiv((1000 - tip[1]) * screen_width, 1000),
                                       TruncDiv(tip[2] * screen_height, 1000)>>]

NextSmooth ==
    \/ \E tip \in SmoothTips : MoveCursor(tip[1], tip[2])
    \/ \E config_dict \in SmoothingDicts : LoadFromDict(config_dict)
    \/ \E tip \in MouseTips : MouseMove(tip)

SpecSmooth == InitConfig /\ [][NextSmooth]_vars

\* The fraction q is the integer n
Is(q, n) == q[1] = n * q[2]

\* The smoothed coordinate after a move is not farther from the target than
\* the one before it, and not on the other side of it
Approaches(before, after, goal) ==
    LET b == goal * before[2] - before[1]
        a == goal * after[2] - after[1]
    IN  /\ Abs(a) * before[2] <= Abs(b) * after[2]
        /\ a * b >= 0

\* C31: smoothing replaces the smoothed position by current + (target -
\* current) * factor: with factor 0.5 and target 100 the position 0 becomes
\* 50 and the position 50 becomes 75; for every factor in [0, 1] the position
\* does not move away from the target and does not pass it.
C31_SmoothingApproachesTarget ==
    /\ hist.op = "move_cursor" =>
          /\ Approaches(hist.prev_position[1], current_x, hist.target[1])
          /\ Approaches(hist.prev_position[2], current_y, hist.target[2])
          /\ (config.CURSOR_SMOOTHING = <<1, 2>> /\ hist.target[1] = 100) =>
                /\ Is(hist.prev_position[1], 0) => Is(current_x, 50)
                /\ Is(hist.prev_position[1], 50) => Is(current_x, 75)
    /\ hist.op = "mouse_move" =>
          /\ Approaches(hist.prev_position[1], <<px, 1>>, hist.target[1])
          /\ Approaches(hist.prev_position[2], <<py, 1>>, hist.target[2])

\* With factor 0.5 the cursor is moved from 0 to the target 100 twice: it is
\* at 75 after having been at 50
C31_Witness ==
    /\ hist.op = "move_cursor"
    /\ config.CURSOR_SMOOTHING = <<1, 2>>
    /\ hist.target[1] = 100
    /\ Is(hist.prev_position[1], 50)
    /\ Is(current_x, 75)
    /\ hist.moves = 3

----------------------------------------------------------------------------
(* The frame loop on gestures that drag and gestures without an action *)

IdleHorizon == 2

IdleLoopGestures == {"FIST", "IDLE", "PALM", "THUMBS_UP"}

\* The loop is run with a gesture window of 2 labels which both confirm and
\* a hold time of 1 tick (Config.load_from_dict)
IdleConfig ==
    [LoopConfig EXCEPT !.GESTURE_BUFFER_SIZE = 2,
                       !.GESTURE_CONFIDENCE_THRESHOLD = 2,
                       !.DRAG_HOLD_TIME = 1]

InitIdle == InitWith(IdleConfig)

NextIdle ==
    \/ Tick(IdleHorizon)
    \/ \E g \in IdleLoopGestures, tip \in FrameTips : Frame(g, tip)
    \/ NoHandFrame

SpecIdle == InitIdle /\ [][NextIdle]_vars

\* The actions _execute_gesture_action has a branch for
HandledActions ==
    {"move_cursor", "left_click", "right_click", "double_click", "drag", "scroll"}

\* The stable gesture of the last frame is None, IDLE or has no handled action
Unhandled ==
    \/ hist.stable \in {None, "IDLE"}
    \/ map_gesture_to_action(hist.stable) \notin HandledActions

\* C32: on a frame that is not paused and whose stable gesture is IDLE, None
\* or without a handled action, an active drag is released, the drag-hold
\* timer is reset to 0 and nothing else is sent.
C32_UnhandledGestureReleasesAndResets ==
    (AfterHandFrame /\ ~hist.paused /\ Unhandled) =>
        /\ ~is_dragging
        /\ drag_start_time = 0
        /\ sent = IF hist.was_dragging
                  THEN <<[cmd |-> "release", arg |-> 0]>>
                  ELSE << >>

\* A drag is in progress when the stable gesture becomes one without an
\* action: the button is released
C32_Witness ==
    /\ AfterHandFrame
    /\ ~hist.paused
    /\ hist.stable = "PALM"
    /\ hist.was_dragging
    /\ sent = <<[cmd |-> "release", arg |-> 0]>>

----------------------------------------------------------------------------
(* GestureRecognizer.reset among the calls of SpecPure *)

\* The part of a state a GestureRecognizer owns
Recognizer(s) ==
    <<s.gesture_buffer, s.current_gesture, s.position_history, s.two_hands_buffer>>

\* The two recognizers return the same and are left in the same state by
\* every single call
SameOutputs(a, b) ==
    /\ \A fs \in PureFingerStates, d \in PureDistances :
          LET a2 == recognize_gesture(a, fs, d)
              b2 == recognize_gesture(b, fs, d)
          IN  a2.ret = b2.ret /\ Recognizer(a2) = Recognizer(b2)
    /\ \A g \in PureLabels :
          LET a2 == stabilize_gesture(a, g)
              b2 == stabilize_gesture(b, g)
          IN  a2.ret = b2.ret /\ Recognizer(a2) = Recognizer(b2)
    /\ \A tip \in PureTips :
          LET a2 == detect_swipe(a, tip)
              b2 == detect_swipe(b, tip)
          IN  a2.ret = b2.ret /\ Recognizer(a2) = Recognizer(b2)
    /\ \A hands \in PureHands, d \in BOOLEAN :
          LET a2 == recognize_two_handed_gesture(a, hands, d)
              b2 == recognize_two_handed_gesture(b, hands, d)
          IN  a2.ret = b2.ret /\ Recognizer(a2) = Recognizer(b2)

\* C34: reset empties the gesture buffer, the position history and the
\* two-hands buffer and sets the stabilized label to None, whatever the state
\* was; every call after it returns what it returns on a newly constructed
\* recognizer and leaves the same state behind, so every sequence of calls
\* does.
C34_ResetGivesAFreshRecognizer ==
    hist.op = "reset" =>
        /\ gesture_buffer = << >>
        /\ position_history = << >>
        /\ two_hands_buffer = << >>
        /\ current_gesture = None
        /\ SameOutputs(State, Constructed)

\* reset is called on a recognizer whose buffers are all filled and which has
\* a stabilized label
C34_Witness ==
    /\ hist.op = "reset"
    /\ Len(hist.prev_buffer) = config.GESTURE_BUFFER_SIZE
    /\ hist.prev_current = "FIST"
    /\ Len(hist.prev_history) = config.SWIPE_BUFFER_SIZE
    /\ hist.prev_two_hands = <<TRUE, TRUE>>
    /\ current_gesture = None
    /\ two_hands_buffer = << >>

----------------------------------------------------------------------------
(* The calls of recognize_two_handed_gesture and reset, with the default    *)
(* configuration: 3 confirming frames of at least 3 fingers on each hand    *)

\* Two hands, both with all their landmarks and both with at least
\* TWO_HANDS_MIN_FINGERS fingers extended
TwoOpenHands(cfg, hands) ==
    /\ Len(hands) >= 2
    /\ \A i \in 1..2 : /\ validate_hand_landmarks(hands[i])
                       /\ hands[i].extended >= cfg.TWO_HANDS_MIN_FINGERS

\* The last n entries of a sequence
Last(seq, n) ==
    IF Len(seq) <= n THEN seq ELSE SubSeq(seq, Len(seq) - n + 1, Len(seq))

TwoHandsCall(hands, has_detector) ==
    LET s2 == recognize_two_handed_gesture(State, hands, has_detector)
        call == [open |-> TwoOpenHands(config, hands), detector |-> has_detector]
    IN  /\ Becomes(s2)
        /\ hist' = [Before(Sink(hist, State, s2, "recognize_two_handed_gesture")) EXCEPT
                       !.hands = hands,
                       !.two_hands_calls =
                           Last(Append(hist.two_hands_calls, call),
                                config.TWO_HANDS_CONFIDENCE_FRAMES)]

\* reset: the calls before it no longer count
TwoHandsReset ==
    LET s2 == reset(State)
    IN  /\ Becomes(s2)
        /\ hist' = [Before(Sink(hist, State, s2, "reset")) EXCEPT
                       !.two_hands_calls = << >>]

NextTwoHands ==
    \/ \E hands \in PureHands, d \in BOOLEAN : TwoHandsCall(hands, d)
    \/ TwoHandsReset

SpecTwoHands == InitConfig /\ [][NextTwoHands]_vars

\* The last call of recognize_two_handed_gesture and the
\* TWO_HANDS_CONFIDENCE_FRAMES - 1 calls before it all had two open hands
ConfirmedTwoOpenHands ==
    /\ Len(hist.two_hands_calls) = config.TWO_HANDS_CONFIDENCE_FRAMES
    /\ \A i \in 1..Len(hist.two_hands_calls) : hist.two_hands_calls[i].open

\* The last call had fewer than two hands or a hand that is not valid
FewOrInvalidHands ==
    \/ Len(hist.hands) < 2
    \/ \E i \in 1..2 : ~validate_hand_landmarks(hist.hands[i])

\* C35: recognize_two_handed_gesture returns TWO_HANDS_OPEN on a call exactly
\* if that call and the TWO_HANDS_CONFIDENCE_FRAMES - 1 calls before it were
\* all frames with two valid hands that each have at least
\* TWO_HANDS_MIN_FINGERS fingers extended; a call with fewer than two hands or
\* with an invalid hand returns None and empties the confirmation buffer.
C35_TwoHandsOpenIffConfirmed ==
    hist.op = "recognize_two_handed_gesture" =>
        /\ ret.recognize_two_handed_gesture = "TWO_HANDS_OPEN"
              <=> ConfirmedTwoOpenHands
        /\ FewOrInvalidHands =>
              /\ ret.recognize_two_handed_gesture = None
              /\ two_hands_buffer = << >>

----------------------------------------------------------------------------
(* Ties in stabilize_gesture, among the calls of SpecStab *)

\* The position of the first occurrence of g in q
FirstIndex(q, g) ==
    CHOOSE i \in 1..Len(q) : q[i] = g /\ \A j \in 1..(i - 1) : q[j] # g

\* The labels of q with the highest count
TopLabels(q) == {q[i] : i \in {j \in 1..Len(q) : Count(q, q[j]) = TopCount(q)}}

\* C36: when the buffer is full and the highest count reaches the confidence
\* threshold, stabilize_gesture chooses, among the labels that share the
\* highest count, the one whose first occurrence in the buffer is the oldest;
\* the result is a function of the content of the buffer.
C36_TieGoesToTheOldestFirstOccurrence ==
    (WindowFull /\ TopCount(gesture_buffer) >= config.GESTURE_CONFIDENCE_THRESHOLD) =>
        /\ current_gesture \in TopLabels(gesture_buffer)
        /\ \A g \in TopLabels(gesture_buffer) :
              FirstIndex(gesture_buffer, current_gesture) <= FirstIndex(gesture_buffer, g)
        /\ ret.stabilize_gesture = current_gesture

\* Two labels occur twice each in a full window of 4 with threshold 2, the
\* newest one being the one that is not chosen
C36_Witness ==
    /\ WindowFull
    /\ gesture_buffer = <<"POINT", "VICTORY", "POINT", "VICTORY">>
    /\ config.GESTURE_CONFIDENCE_THRESHOLD = 2
    /\ hist.prev_current = "VICTORY"
    /\ current_gesture = "POINT"
    /\ ret.stabilize_gesture = "POINT"

----------------------------------------------------------------------------
(* The calls of detect_swipe and detect_circular_motion on one recognizer,  *)
(* with a position history of 4 entries                                     *)

\* Fingertips on three corners of a square: every displacement is along an
\* axis or a diagonal
CircleTips == {<<0, 0>>, <<200, 0>>, <<0, 200>>}

SwipeCall(tip) ==
    LET s2 == detect_swipe(State, tip)
    IN  /\ Becomes(s2)
        /\ hist' = Before(Sink(hist, State, s2, "detect_swipe"))

CircularCall(tip, has_hand) ==
    LET s2 == detect_circular_motion(State, tip, has_hand)
    IN  /\ Becomes(s2)
        /\ hist' = [Before(Sink(hist, State, s2, "detect_circular_motion")) EXCEPT
                       !.has_hand = has_hand]

InitCircular == InitWith([DefaultConfig EXCEPT !.SWIPE_BUFFER_SIZE = 4])

NextCircular ==
    \/ \E tip \in CircleTips : SwipeCall(tip)
    \/ \E tip \in CircleTips, has_hand \in BOOLEAN : CircularCall(tip, has_hand)

SpecCircular == InitCircular /\ [][NextCircular]_vars

\* The recognizer as it was before the last call
Uncalled == [State EXCEPT !.position_history = hist.prev_history]

\* C37: a call of detect_circular_motion leaves the position history as it
\* was, so that every detect_swipe call after it returns what it returns when
\* detect_circular_motion has not been called.
C37_CircularMotionLeavesTheHistory ==
    hist.op = "detect_circular_motion" =>
        /\ position_history = hist.prev_history
        /\ \A tip \in CircleTips :
              detect_swipe(State, tip).ret.detect_swipe
                  = detect_swipe(Uncalled, tip).ret.detect_swipe

----------------------------------------------------------------------------
(* The two extractors of the finger states on the same landmarks: a hand is *)
(* a function from the landmark numbers 0..20 to <<x, y>> in units of 0.001 *)

\* HandDetector.get_finger_states (gesture_controller/hand_detector.py) on
\* the landmarks of a hand
HandDetector_get_finger_states(landmarks) ==
    [f \in Fingers |->
        CASE f = "thumb"  -> landmarks[4][1] > landmarks[3][1]
          [] f = "index"  -> landmarks[8][2] < landmarks[6][2]
          [] f = "middle" -> landmarks[12][2] < landmarks[10][2]
          [] f = "ring"   -> landmarks[16][2] < landmarks[14][2]
          [] f = "pinky"  -> landmarks[20][2] < landmarks[18][2]]

\* get_finger_states of gestures/finger_state.py on the landmarks of a hand
finger_state_get_finger_states(lm) ==
    LET palm_x == lm[0][1]
    IN  [f \in Fingers |->
            CASE f = "thumb"  -> Abs(lm[4][1] - palm_x) > Abs(lm[3][1] - palm_x)
              [] f = "index"  -> lm[8][2] < lm[6][2]
              [] f = "middle" -> lm[12][2] < lm[10][2]
              [] f = "ring"   -> lm[16][2] < lm[14][2]
              [] f = "pinky"  -> lm[20][2] < lm[18][2]]

\* <<x of the wrist, x of the thumb joint, x of the thumb tip>>: thumbs on
\* either side of the wrist, folded and extended, and a tip level with the joint
ThumbXs ==
    {<<500, x3, x4>> : x3 \in {400, 600}, x4 \in {300, 400, 450, 550, 600, 700}}

\* <<y of the middle joint, y of the tip>> of a finger: above, level, below
FingerYs == {<<400, 300>>, <<400, 400>>, <<400, 500>>}

\* The hand with these thumb coordinates and these finger coordinates
HandOf(thumb, index, middle, ring, pinky) ==
    [i \in 0..20 |->
        CASE i = 0  -> <<thumb[1], 800>>
          [] i = 3  -> <<thumb[2], 600>>
          [] i = 4  -> <<thumb[3], 550>>
          [] i = 6  -> <<450, index[1]>>
          [] i = 8  -> <<450, index[2]>>
          [] i = 10 -> <<500, middle[1]>>
          [] i = 14 -> <<550, ring[1]>>
          [] i = 12 -> <<500, middle[2]>>
          [] i = 16 -> <<550, ring[2]>>
          [] i = 18 -> <<600, pinky[1]>>
          [] i = 20 -> <<600, pinky[2]>>
          [] OTHER  -> <<500, 600>>]

\* Both extractors are called on the landmarks of one hand
GetFingerStates(landmarks) ==
    LET s2 == [State EXCEPT
                  !.ret.HandDetector_get_finger_states =
                      HandDetector_get_finger_states(landmarks),
                  !.ret.finger_state_get_finger_states =
                      finger_state_get_finger_states(landmarks)]
    IN  /\ Becomes(s2)
        /\ hist' = [Sink(hist, State, s2, "get_finger_states") EXCEPT
                       !.hand = landmarks]

InitFingers == InitWith(DefaultConfig)

NextFingers ==
    \E thumb \in ThumbXs, index, middle, ring, pinky \in FingerYs :
        GetFingerStates(HandOf(thumb, index, middle, ring, pinky))

SpecFingers == InitFingers /\ [][NextFingers]_vars

\* The thumb tip of the last hand is farther from the wrist in x than the
\* thumb joint
ThumbFartherThanJoint ==
    Abs(hist.hand[4][1] - hist.hand[0][1]) > Abs(hist.hand[3][1] - hist.hand[0][1])

\* C38: the thumb flag is True exactly if the thumb tip lies farther from the
\* wrist in x than the thumb joint, on either side of the wrist; both
\* extractors return the same five flags for the same landmarks, the other
\* four fingers being extended exactly if the tip y is less than the joint y.
C38_ExtractorsAgreeOnTheFlags ==
    hist.op = "get_finger_states" =>
        LET flags == ret.HandDetector_get_finger_states
            other == ret.finger_state_get_finger_states
        IN  /\ flags["thumb"] <=> ThumbFartherThanJoint
            /\ other["thumb"] <=> ThumbFartherThanJoint
            /\ flags = other
            /\ flags["index"]  <=> hist.hand[8][2] < hist.hand[6][2]
            /\ flags["middle"] <=> hist.hand[12][2] < hist.hand[10][2]
            /\ flags["ring"]   <=> hist.hand[16][2] < hist.hand[14][2]
            /\ flags["pinky"]  <=> hist.hand[20][2] < hist.hand[18][2]

----------------------------------------------------------------------------
(* The two stabilizers fed the same labels, among the calls of SpecStab *)

\* GestureRecognizer is configured with the window and the threshold of
\* GestureStabilizer, 5 and 3
SameWindows ==
    /\ config.GESTURE_BUFFER_SIZE = settings.GESTURE_BUFFER_SIZE
    /\ config.GESTURE_CONFIDENCE_THRESHOLD = settings.GESTURE_THRESHOLD

\* C39: with the window 5 and the threshold 3 in both, and both fed the same
\* labels since construction or reset, GestureStabilizer.update and
\* GestureRecognizer.stabilize_gesture return the same value on the 5th call
\* and on every call after it.
C39_StabilizersAgreeOnceFull ==
    (SameWindows /\ WindowFull) =>
        /\ ret.update = ret.stabilize_gesture
        /\ last_stable = current_gesture

\* Both return POINT on a full window in which no label occurs 3 times and
\* whose newest label is another one
C39_Witness ==
    /\ SameWindows
    /\ WindowFull
    /\ TopCount(gesture_buffer) < 3
    /\ hist.raw # "POINT"
    /\ ret.update = "POINT"
    /\ ret.stabilize_gesture = "POINT"

----------------------------------------------------------------------------
(* The symmetry of OSController.scroll, among the calls of SpecScrollCalls *)

\* The value OSController.scroll sends to the sink for an amount
ScrollSentFor(amount) == scroll(State, amount).sent[1].arg

\* C40: OSController.scroll is symmetric in the sign: with every configured
\* multiplier and maximum, the value sent to the sink for -a is the negation
\* of the value sent for the amount a.
C40_ScrollIsSignSymmetric ==
    hist.op = "scroll" =>
        /\ Len(sent) = 1
        /\ sent[1].arg = ScrollSentFor(hist.amount[1])
        /\ ScrollSentFor(-hist.amount[1]) = -sent[1].arg

=============================================================================
